---- MODULE Spec2Model ----
(***************************************************************************)
(* A model of stream_checker.py: the StreamChecker scheduler               *)
(* (process_files, check_url, save_checkpoint, load_checkpoint) and the    *)
(* prober's decision policy (check_url, _validate_m3u8,                    *)
(* _validate_media_playlist, _validate_flv, _check_stream_content).        *)
(*                                                                         *)
(* Spec       the scheduler: runs of process_files with crashes, aborts    *)
(*            and resumed runs over the files left on disk.                *)
(* SpecProbe  one probe: the network requests of check_url against an      *)
(*            environment drawn from ProbeScenarios.                       *)
(* SpecRun    the scheduler's runs whose saves succeed, under the fairness *)
(*            of the event loop, with checkpoint files cut short.          *)
(* SpecSave   one run whose checkpoint writes may fail.                    *)
(* SpecRelist runs resumed on an input list that has changed.              *)
(* SpecFlv    _validate_flv on byte sequences.                             *)
(* SpecSniff  _check_stream_content on byte samples and URLs.              *)
(* SpecReport _create_final_sorted_file on lists of valid items.           *)
(***************************************************************************)
EXTENDS Integers, Sequences, FiniteSets, TLC

\* ------------------------------------------------------------------ bounds
MaxRecords == 3       \* longest all_url_infos list handed to process_files
MaxConcurrency == 2   \* largest concurrency argument of the constructor
MaxSaveInterval == 2  \* largest save_interval argument of the constructor
MaxRuns == 2          \* process_files invocations (first run plus resumed runs)
MaxItems == 3         \* longest results["valid"] list handed to the report writer

\* ------------------------------------------------------- program constants
\* The switches at the head of the file.  VALIDATE_OTHER_STREAMS is True as
\* shipped; a probe is also checked with it set to False.
VARIABLE config

DefaultConfig == [VALIDATE_OTHER_STREAMS |-> TRUE]

USE_FFPROBE == FALSE
DEEP_VALIDATION == TRUE
VALIDATE_M3U8_CONTENT == TRUE
VALIDATE_OTHER_STREAMS == config.VALIDATE_OTHER_STREAMS
ENABLE_CHECKPOINT == TRUE
M3U8_SEGMENTS_TO_CHECK == 3
INCLUDE_AGGREGATED_SECTION == FALSE

None == "None"

\* a file that does not exist, and a file opened for writing and not yet closed
NoFile == [exists |-> FALSE]
PartialFile == [exists |-> TRUE, complete |-> FALSE]

Min(a, b) == IF a < b THEN a ELSE b

\* ------------------------------------------------------------ URL strings
\* What urlparse, str.lower().endswith, re.search over stream_url_patterns and
\* rsplit('/', 1)[0] give on each URL string of the model.
UrlInfo ==
     "http://x/a.m3u8"    :> [scheme |-> "http", netloc |-> "x", ext |-> ".m3u8", pattern |-> TRUE,  dir |-> "http://x"]
  @@ "http://x/b.flv"     :> [scheme |-> "http", netloc |-> "x", ext |-> ".flv",  pattern |-> TRUE,  dir |-> "http://x"]
  @@ "http://x/live/c"    :> [scheme |-> "http", netloc |-> "x", ext |-> "",      pattern |-> TRUE,  dir |-> "http://x/live"]
  @@ "http://x/d"         :> [scheme |-> "http", netloc |-> "x", ext |-> "",      pattern |-> FALSE, dir |-> "http://x"]
  @@ "http:///e"          :> [scheme |-> "http", netloc |-> "",  ext |-> "",      pattern |-> FALSE, dir |-> "http://"]
  @@ "//x/g"              :> [scheme |-> "",     netloc |-> "x", ext |-> "",      pattern |-> FALSE, dir |-> "//x"]
  @@ "h"                  :> [scheme |-> "",     netloc |-> "",  ext |-> "",      pattern |-> FALSE, dir |-> "h"]
  @@ "rtmp://x/r"         :> [scheme |-> "rtmp", netloc |-> "x", ext |-> "",      pattern |-> TRUE,  dir |-> "rtmp://x"]
  @@ "http://cdn/v1.m3u8" :> [scheme |-> "http", netloc |-> "cdn", ext |-> ".m3u8", pattern |-> TRUE, dir |-> "http://cdn"]
  @@ "http://x/v2.m3u8"   :> [scheme |-> "http", netloc |-> "x", ext |-> ".m3u8", pattern |-> TRUE,  dir |-> "http://x"]
  @@ "http://x/live/v2.m3u8" :> [scheme |-> "http", netloc |-> "x", ext |-> ".m3u8", pattern |-> TRUE, dir |-> "http://x/live"]
  @@ "http://x/t.ts"      :> [scheme |-> "http", netloc |-> "x", ext |-> ".ts",   pattern |-> TRUE,  dir |-> "http://x"]
  @@ "http://x/m.mp4"     :> [scheme |-> "http", netloc |-> "x", ext |-> ".mp4",  pattern |-> TRUE,  dir |-> "http://x"]
  @@ "http://x/p.php?id=1" :> [scheme |-> "http", netloc |-> "x", ext |-> "",     pattern |-> FALSE, dir |-> "http://x"]

\* a parser that takes a missing authority for the local host
urlparse_default_host(url) ==
  [scheme |-> UrlInfo[url].scheme,
   netloc |-> IF UrlInfo[url].netloc = "" THEN "localhost" ELSE UrlInfo[url].netloc]

urlparse(url) == [scheme |-> UrlInfo[url].scheme, netloc |-> UrlInfo[url].netloc]

\* a pattern list that matches no URL
is_likely_stream_never(url) == FALSE

\* any(re.search(pattern, url, re.IGNORECASE) for pattern in stream_url_patterns)
is_likely_stream(url) == UrlInfo[url].pattern

\* url.lower().endswith(ext)
url_endswith(url, ext) == UrlInfo[url].ext = ext

\* url.rsplit('/', 1)[0] if '/' in url else url
base_url(url) == UrlInfo[url].dir

\* ---------------------------------------------------------- playlist lines
\* A playlist body is the sequence of its lines (content.splitlines()).
HashLines == {"#EXTM3U", "#EXT-X-STREAM-INF:BANDWIDTH=1", "#EXTINF:10,"}
HttpLines == {"http://cdn/v1.m3u8", "http://cdn/s9.ts"}
BlankLines == {"", "  "}

line_startswith_http(line) == line \in HttpLines
line_startswith_hash(line) == line \in HashLines
line_strip(line) == IF line \in BlankLines THEN "" ELSE line

\* content.startswith('#EXTM3U')
content_startswith_EXTM3U(content) == Len(content) > 0 /\ content[1] = "#EXTM3U"

\* '#EXT-X-STREAM-INF' in content
content_has_STREAM_INF(content) ==
  \E i \in 1..Len(content) : content[i] = "#EXT-X-STREAM-INF:BANDWIDTH=1"

\* urljoin(base_url + '/', line.strip()) for a reference of the model
urljoin(base, ref) == IF ref \in HttpLines THEN ref ELSE base \o "/" \o ref

\* ----------------------------------------------------------- content types
CtInfo ==
     "application/vnd.apple.mpegurl" :> [mpegurl |-> TRUE,  flv |-> FALSE, stream |-> TRUE]
  @@ "video/x-flv"                   :> [mpegurl |-> FALSE, flv |-> TRUE,  stream |-> TRUE]
  @@ "video/mp4"                     :> [mpegurl |-> FALSE, flv |-> FALSE, stream |-> TRUE]
  @@ "text/html"                     :> [mpegurl |-> FALSE, flv |-> FALSE, stream |-> FALSE]
  @@ ""                              :> [mpegurl |-> FALSE, flv |-> FALSE, stream |-> FALSE]

\* ------------------------------------------------------------ byte samples
RECURSIVE bytes_startswith(_, _)
bytes_startswith(b, pat) ==
  IF pat = <<>> THEN TRUE
  ELSE IF b = <<>> THEN FALSE
  ELSE Head(b) = Head(pat) /\ bytes_startswith(Tail(b), Tail(pat))

RECURSIVE bytes_contains(_, _)
bytes_contains(b, pat) ==
  IF bytes_startswith(b, pat) THEN TRUE
  ELSE IF b = <<>> THEN FALSE
  ELSE bytes_contains(Tail(b), pat)

B_FLV == <<70, 76, 86>>
B_EXTM3U == <<35, 69, 88, 84, 77, 51, 85>>
B_STREAM_INF == <<35, 69, 88, 84, 45, 88, 45, 83, 84, 82, 69, 65, 77, 45, 73, 78, 70>>
B_ftyp == <<102, 116, 121, 112>>
B_xml == <<60, 63, 120, 109, 108>>

\* content_bytes.decode('utf-8') succeeds (the samples of the model hold ASCII
\* bytes or the byte 0xFF, which no UTF-8 text contains)
utf8_decodes(b) == \A i \in 1..Len(b) : b[i] < 128

\* response.content.read(n)
content_read(body, n) == SubSeq(body, 1, Min(n, Len(body)))

\* a header check that reads the header size little-endian
_validate_flv_little_endian(content_bytes) ==
  IF Len(content_bytes) < 9 THEN FALSE
  ELSE IF ~bytes_startswith(content_bytes, B_FLV) THEN FALSE
  ELSE IF content_bytes[4] # 1 THEN FALSE
  ELSE IF content_bytes[5] \notin {1, 4, 5} THEN FALSE
  ELSE IF content_bytes[9] * 16777216 + content_bytes[8] * 65536
          + content_bytes[7] * 256 + content_bytes[6] # 9 THEN FALSE
  ELSE TRUE

_validate_flv(content_bytes) ==
  IF Len(content_bytes) < 9 THEN FALSE
  ELSE IF ~bytes_startswith(content_bytes, B_FLV) THEN FALSE
  ELSE IF content_bytes[4] # 1 THEN FALSE
  ELSE IF content_bytes[5] \notin {1, 4, 5} THEN FALSE
  ELSE IF content_bytes[6] * 16777216 + content_bytes[7] * 65536
          + content_bytes[8] * 256 + content_bytes[9] # 9 THEN FALSE
  ELSE TRUE

any_signature(content_bytes) ==
  \/ bytes_startswith(content_bytes, B_EXTM3U)
  \/ bytes_startswith(content_bytes, <<71>>)
  \/ bytes_contains(content_bytes, B_ftyp)
  \/ _validate_flv(content_bytes)
  \/ bytes_contains(content_bytes, B_xml)

\* a sniff that tries every signature whatever the URL ends with
_check_stream_content_any(content_bytes, url) == any_signature(content_bytes)

_check_stream_content(content_bytes, url) ==
  IF url_endswith(url, ".m3u8")
  THEN utf8_decodes(content_bytes)
       /\ (bytes_startswith(content_bytes, B_EXTM3U)
           \/ bytes_contains(content_bytes, B_STREAM_INF))
  ELSE IF url_endswith(url, ".ts") THEN bytes_startswith(content_bytes, <<71>>)
  ELSE IF url_endswith(url, ".mp4") THEN bytes_contains(content_bytes, B_ftyp)
  ELSE IF url_endswith(url, ".flv") THEN _validate_flv(content_bytes)
  ELSE any_signature(content_bytes)

\* ------------------------------------------------------------- the network
\* The environment of one probe: sc.server maps a request target to what the
\* server does with it.  net: the request returns ("ok"), exceeds the timeout
\* (asyncio.TimeoutError) or fails (aiohttp.ClientError); read: the same for
\* reading the body; sc.ffprobe: the verdict of _validate_with_ffprobe.
Response(net, status, ctype, read, text, bytes) ==
  [net |-> net, status |-> status, ctype |-> ctype, read |-> read,
   text |-> text, bytes |-> bytes]

NotFound == Response("ok", 404, "text/html", "ok", <<>>, <<>>)

fetch(sc, target) ==
  IF target \in DOMAIN sc.server THEN sc.server[target] ELSE NotFound

\* str(e) of the exception a failed network operation raises
str_exc(kind) == IF kind = "timeout" THEN "" ELSE "Connection reset by peer"

\* what a request came to, as one word of the request log
outcome_of(resp) == IF resp.net # "ok" THEN resp.net ELSE ToString(resp.status)

Request(method, target, resp) ==
  [method |-> method, target |-> target, result |-> outcome_of(resp)]

Verdict(ok, msg, reqs) == [ok |-> ok, msg |-> msg, reqs |-> reqs]

\* --------------------------------------------------- playlist chain resolver
\* the references of a playlist body, resolved against the playlist's URL
RECURSIVE media_segments(_, _)
media_segments(url, content) ==
  IF content = <<>> THEN <<>>
  ELSE LET line == Head(content)
           rest == media_segments(url, Tail(content))
       IN IF ~line_startswith_hash(line) /\ line_strip(line) # ""
          THEN IF line_startswith_http(line)
               THEN <<line_strip(line)>> \o rest
               ELSE <<urljoin(base_url(url), line_strip(line))>> \o rest
          ELSE rest

RECURSIVE variant_urls(_, _)
variant_urls(url, content) ==
  IF content = <<>> THEN <<>>
  ELSE LET line == Head(content)
           rest == variant_urls(url, Tail(content))
       IN IF line_startswith_http(line)
          THEN <<line_strip(line)>> \o rest
          ELSE IF ~line_startswith_hash(line) /\ line_strip(line) # ""
          THEN <<urljoin(base_url(url), line_strip(line))>> \o rest
          ELSE rest

\* a loop that numbers the segments from 0 in its messages
RECURSIVE check_segments_from_zero(_, _, _, _)
check_segments_from_zero(segments, i, segments_to_check, sc) ==
  IF i > segments_to_check THEN Verdict(TRUE, None, <<>>)
  ELSE LET resp == fetch(sc, segments[i])
           req == Request("HEAD", segments[i], resp)
       IN IF resp.net # "ok"
          THEN Verdict(FALSE, "Error checking segment " \o ToString(i - 1) \o ": "
                              \o str_exc(resp.net), <<req>>)
          ELSE IF resp.status >= 400
          THEN Verdict(FALSE, "Segment " \o ToString(i - 1) \o " HTTP status: "
                              \o ToString(resp.status), <<req>>)
          ELSE LET rest == check_segments_from_zero(segments, i + 1,
                                                    segments_to_check, sc)
               IN Verdict(rest.ok, rest.msg, <<req>> \o rest.reqs)

\* the loop over range(segments_to_check), from segment i on
RECURSIVE check_segments(_, _, _, _)
check_segments(segments, i, segments_to_check, sc) ==
  IF i > segments_to_check THEN Verdict(TRUE, None, <<>>)
  ELSE LET resp == fetch(sc, segments[i])
           req == Request("HEAD", segments[i], resp)
       IN IF resp.net # "ok"
          THEN Verdict(FALSE, "Error checking segment " \o ToString(i) \o ": "
                              \o str_exc(resp.net), <<req>>)
          ELSE IF resp.status >= 400
          THEN Verdict(FALSE, "Segment " \o ToString(i) \o " HTTP status: "
                              \o ToString(resp.status), <<req>>)
          ELSE LET rest == check_segments(segments, i + 1, segments_to_check, sc)
               IN Verdict(rest.ok, rest.msg, <<req>> \o rest.reqs)

\* a validator that checks every segment listed
_validate_media_playlist_all(url, content, sc) ==
  LET segments == media_segments(url, content)
  IN IF segments = <<>>
     THEN Verdict(FALSE, "No media segments found in playlist", <<>>)
     ELSE check_segments(segments, 1, Len(segments), sc)

\* a validator that gives no message for a playlist without segments
_validate_media_playlist_silent(url, content, sc) ==
  LET segments == media_segments(url, content)
  IN IF segments = <<>>
     THEN Verdict(FALSE, None, <<>>)
     ELSE check_segments(segments, 1,
                         Min(Len(segments), M3U8_SEGMENTS_TO_CHECK), sc)

_validate_media_playlist(url, content, sc) ==
  LET segments == media_segments(url, content)
  IN IF segments = <<>>
     THEN Verdict(FALSE, "No media segments found in playlist", <<>>)
     ELSE check_segments(segments, 1,
                         Min(Len(segments), M3U8_SEGMENTS_TO_CHECK), sc)

\* a resolver that follows the last variant listed
_validate_m3u8_last(url, content, sc) ==
  IF VALIDATE_M3U8_CONTENT /\ ~content_startswith_EXTM3U(content)
  THEN Verdict(FALSE, "Not a valid M3U8 file (missing #EXTM3U header)", <<>>)
  ELSE IF content_has_STREAM_INF(content)
  THEN LET variants == variant_urls(url, content)
       IN IF variants = <<>>
          THEN Verdict(FALSE, "No variant streams found in master playlist", <<>>)
          ELSE LET last == variants[Len(variants)]
                   resp == fetch(sc, last)
                   req == Request("GET", last, resp)
               IN IF resp.net # "ok"
                  THEN Verdict(FALSE, "Error checking variant stream: "
                                      \o str_exc(resp.net), <<req>>)
                  ELSE IF resp.status >= 400
                  THEN Verdict(FALSE, "Variant stream HTTP status: "
                                      \o ToString(resp.status), <<req>>)
                  ELSE IF resp.read # "ok"
                  THEN Verdict(FALSE, "Error checking variant stream: "
                                      \o str_exc(resp.read),
                               <<[req EXCEPT !.result = resp.read]>>)
                  ELSE LET v == _validate_media_playlist(last, resp.text, sc)
                       IN Verdict(v.ok, v.msg, <<req>> \o v.reqs)
  ELSE _validate_media_playlist(url, content, sc)

_validate_m3u8(url, content, sc) ==
  IF VALIDATE_M3U8_CONTENT /\ ~content_startswith_EXTM3U(content)
  THEN Verdict(FALSE, "Not a valid M3U8 file (missing #EXTM3U header)", <<>>)
  ELSE IF content_has_STREAM_INF(content)
  THEN LET variants == variant_urls(url, content)
       IN IF variants = <<>>
          THEN Verdict(FALSE, "No variant streams found in master playlist", <<>>)
          ELSE LET resp == fetch(sc, variants[1])
                   req == Request("GET", variants[1], resp)
               IN IF resp.net # "ok"
                  THEN Verdict(FALSE, "Error checking variant stream: "
                                      \o str_exc(resp.net), <<req>>)
                  ELSE IF resp.status >= 400
                  THEN Verdict(FALSE, "Variant stream HTTP status: "
                                      \o ToString(resp.status), <<req>>)
                  ELSE IF resp.read # "ok"
                  THEN Verdict(FALSE, "Error checking variant stream: "
                                      \o str_exc(resp.read),
                               <<[req EXCEPT !.result = resp.read]>>)
                  ELSE LET v == _validate_media_playlist(variants[1], resp.text, sc)
                       IN Verdict(v.ok, v.msg, <<req>> \o v.reqs)
  ELSE _validate_media_playlist(url, content, sc)

\* ------------------------------------------------------------------ prober
\* What check_url computes for one record before it touches the counters:
\* exit = "return" for the two return statements inside the try block (the
\* code after the try block is skipped), "end" when control reaches the code
\* after the try block.
Outcome(exit, status, error_message, reqs) ==
  [exit |-> exit, status |-> status, error |-> error_message, reqs |-> reqs]

\* branches that try the content-type allow-list before the HLS and FLV checks
check_response_allowlist_first(url, resp, sc) ==
  LET ct == CtInfo[resp.ctype]
      get == Request("GET", url, resp)
  IN IF ct.stream
     THEN Outcome("end", "valid", None, <<get>>)
     ELSE IF (url_endswith(url, ".m3u8") \/ ct.mpegurl) /\ DEEP_VALIDATION
     THEN IF resp.read = "timeout"
          THEN Outcome("end", "timeout", "Request timed out",
                       <<[get EXCEPT !.result = "timeout"]>>)
          ELSE IF resp.read # "ok"
          THEN Outcome("end", "error", str_exc(resp.read),
                       <<[get EXCEPT !.result = resp.read]>>)
          ELSE LET v == _validate_m3u8(url, resp.text, sc)
               IN IF v.ok
                  THEN Outcome("end", "valid", None, <<get>> \o v.reqs)
                  ELSE Outcome("end", "invalid", v.msg, <<get>> \o v.reqs)
     ELSE IF (url_endswith(url, ".flv") \/ ct.flv) /\ VALIDATE_OTHER_STREAMS
     THEN IF resp.read = "timeout"
          THEN Outcome("end", "timeout", "Request timed out",
                       <<[get EXCEPT !.result = "timeout"]>>)
          ELSE IF resp.read # "ok"
          THEN Outcome("end", "error", str_exc(resp.read),
                       <<[get EXCEPT !.result = resp.read]>>)
          ELSE IF _validate_flv(content_read(resp.bytes, 12))
          THEN Outcome("end", "valid", None, <<get>>)
          ELSE Outcome("end", "invalid", "Not a valid FLV stream", <<get>>)
     ELSE IF VALIDATE_OTHER_STREAMS
     THEN IF resp.read = "timeout"
          THEN Outcome("end", "timeout", "Request timed out",
                       <<[get EXCEPT !.result = "timeout"]>>)
          ELSE IF resp.read # "ok"
          THEN Outcome("end", "error", str_exc(resp.read),
                       <<[get EXCEPT !.result = resp.read]>>)
          ELSE IF _check_stream_content(content_read(resp.bytes, 1024), url)
          THEN Outcome("end", "valid", None, <<get>>)
          ELSE IF is_likely_stream(url)
          THEN Outcome("end", "valid", None, <<get>>)
          ELSE Outcome("end", "invalid",
                       "Content does not appear to be a valid stream", <<get>>)
     ELSE IF is_likely_stream(url)
     THEN Outcome("end", "valid", None, <<get>>)
     ELSE Outcome("end", "invalid", "URL does not match known stream patterns",
                  <<get>>)

\* the branches taken on a response with status < 400
check_response(url, resp, sc) ==
  LET ct == CtInfo[resp.ctype]
      get == Request("GET", url, resp)
  IN IF (url_endswith(url, ".m3u8") \/ ct.mpegurl) /\ DEEP_VALIDATION
     THEN IF resp.read = "timeout"
          THEN Outcome("end", "timeout", "Request timed out",
                       <<[get EXCEPT !.result = "timeout"]>>)
          ELSE IF resp.read # "ok"
          THEN Outcome("end", "error", str_exc(resp.read),
                       <<[get EXCEPT !.result = resp.read]>>)
          ELSE LET v == _validate_m3u8(url, resp.text, sc)
               IN IF v.ok
                  THEN Outcome("end", "valid", None, <<get>> \o v.reqs)
                  ELSE Outcome("end", "invalid", v.msg, <<get>> \o v.reqs)
     ELSE IF (url_endswith(url, ".flv") \/ ct.flv) /\ VALIDATE_OTHER_STREAMS
     THEN IF resp.read = "timeout"
          THEN Outcome("end", "timeout", "Request timed out",
                       <<[get EXCEPT !.result = "timeout"]>>)
          ELSE IF resp.read # "ok"
          THEN Outcome("end", "error", str_exc(resp.read),
                       <<[get EXCEPT !.result = resp.read]>>)
          ELSE IF _validate_flv(content_read(resp.bytes, 12))
          THEN Outcome("end", "valid", None, <<get>>)
          ELSE Outcome("end", "invalid", "Not a valid FLV stream", <<get>>)
     ELSE IF ct.stream
     THEN Outcome("end", "valid", None, <<get>>)
     ELSE IF VALIDATE_OTHER_STREAMS
     THEN IF resp.read = "timeout"
          THEN Outcome("end", "timeout", "Request timed out",
                       <<[get EXCEPT !.result = "timeout"]>>)
          ELSE IF resp.read # "ok"
          THEN Outcome("end", "error", str_exc(resp.read),
                       <<[get EXCEPT !.result = resp.read]>>)
          ELSE IF _check_stream_content(content_read(resp.bytes, 1024), url)
          THEN Outcome("end", "valid", None, <<get>>)
          ELSE IF is_likely_stream(url)
          THEN Outcome("end", "valid", None, <<get>>)
          ELSE Outcome("end", "invalid",
                       "Content does not appear to be a valid stream", <<get>>)
     ELSE IF is_likely_stream(url)
     THEN Outcome("end", "valid", None, <<get>>)
     ELSE Outcome("end", "invalid", "URL does not match known stream patterns",
                  <<get>>)

\* the try block of check_url
check_url_try(url, sc) ==
  LET parsed_url == urlparse(url)
  IN IF parsed_url.scheme = "" \/ parsed_url.netloc = ""
     THEN Outcome("return", "invalid", "Invalid URL format", <<>>)
     ELSE IF parsed_url.scheme = "rtmp" /\ USE_FFPROBE
     THEN IF sc.ffprobe.ok
          THEN Outcome("return", "valid", None, <<>>)
          ELSE Outcome("return", "invalid", sc.ffprobe.msg, <<>>)
     ELSE IF parsed_url.scheme \notin {"http", "https"}
     THEN Outcome("end", "error", "Non-HTTP URL", <<>>)
     ELSE LET resp == fetch(sc, url)
          IN IF resp.net = "timeout"
             THEN Outcome("end", "timeout", "Request timed out",
                          <<Request("GET", url, resp)>>)
             ELSE IF resp.net # "ok"
             THEN Outcome("end", "error", str_exc(resp.net),
                          <<Request("GET", url, resp)>>)
             ELSE IF resp.status < 400
             THEN check_response(url, resp, sc)
             ELSE Outcome("end", "invalid",
                          "HTTP status: " \o ToString(resp.status),
                          <<Request("GET", url, resp)>>)

\* =============================================================== scheduler
VARIABLES
  args,             \* the constructor's and process_files' arguments of this run
  all_url_infos,    \* the records extracted from the input files
  self,             \* the StreamChecker object
  unique_url_infos, \* process_files' list of records still to check
  i,                \* process_files' loop variable: offset of the current batch
  pc,               \* where process_files is
  task,             \* the check_url task of each record of the current batch
  save_pc,          \* where save_intermediate_results / save_results is
  save_for,         \* who called it: a record's url (check_url), "batch", "skip" or "final"
  disk,             \* the files: checkpoint file, its .tmp file, the result output
  run,              \* number of the current process_files invocation
  hist              \* history: what earlier runs and the current save did

VARIABLES p_url, p_sc, p_pc, p_out   \* one probe, under SpecProbe

sched_vars == <<args, all_url_infos, self, unique_url_infos, i, pc, task,
                save_pc, save_for, disk, run, hist>>
probe_vars == <<p_url, p_sc, p_pc, p_out, config>>
vars == <<sched_vars, probe_vars>>

\* the URL strings of the records the scheduler is given
SchedUrls == {"http://x/a.m3u8", "http://x/d", "http:///e"}

Statuses == {"valid", "invalid", "timeout", "error"}

RECURSIVE SeqsUpTo(_, _)
SeqsUpTo(S, n) ==
  IF n = 0 THEN {<<>>}
  ELSE LET shorter == SeqsUpTo(S, n - 1)
       IN shorter \cup {Append(q, x) : q \in {r \in shorter : Len(r) = n - 1}, x \in S}

InputLists == SeqsUpTo(SchedUrls, MaxRecords)

\* an identity that differs from one process to the next (a salted hash)
url_hash_per_run(url) == "run" \o ToString(run) \o ":" \o url

\* hashlib.md5(url.encode()).hexdigest()
url_hash(url) == "md5:" \o url

EmptyResults == [valid |-> <<>>, invalid |-> <<>>, timeout |-> <<>>, error |-> <<>>]

\* a constructor that sizes the semaphore and the batches one too large
StreamChecker_one_more(concurrency, save_interval, checkpoint_file) ==
  [concurrency |-> concurrency + 1,
   semaphore |-> concurrency + 1,
   results |-> [valid |-> <<>>, invalid |-> <<>>, timeout |-> <<>>, error |-> <<>>],
   total_urls |-> 0,
   processed_urls |-> 0,
   save_interval |-> save_interval,
   checkpoint_file |-> checkpoint_file,
   processed_url_hashes |-> {},
   output_file |-> FALSE,
   last_save_count |-> 0]

\* StreamChecker.__init__
StreamChecker(concurrency, save_interval, checkpoint_file) ==
  [concurrency |-> concurrency,
   semaphore |-> concurrency,
   results |-> EmptyResults,
   total_urls |-> 0,
   processed_urls |-> 0,
   save_interval |-> save_interval,
   checkpoint_file |-> checkpoint_file,
   processed_url_hashes |-> {},
   output_file |-> FALSE,
   last_save_count |-> 0]

\* a dedup that keeps every record
remove_duplicates_keep_all(url_infos, seen_urls) == url_infos

\* "Remove duplicates while preserving order"
RECURSIVE remove_duplicates(_, _)
remove_duplicates(url_infos, seen_urls) ==
  IF url_infos = <<>> THEN <<>>
  ELSE IF Head(url_infos) \in seen_urls
  THEN remove_duplicates(Tail(url_infos), seen_urls)
  ELSE <<Head(url_infos)>>
       \o remove_duplicates(Tail(url_infos), seen_urls \cup {Head(url_infos)})

\* a resume that filters nothing
filter_processed_nothing(url_infos, processed_url_hashes) == url_infos

\* the filter of the records already processed
filter_processed(url_infos, processed_url_hashes) ==
  SelectSeq(url_infos, LAMBDA url : url_hash(url) \notin processed_url_hashes)

\* unique_url_infos[i:i+self.concurrency]
batch_at(url_infos, offset, concurrency) ==
  SubSeq(url_infos, offset + 1, Min(offset + concurrency, Len(url_infos)))

Range(q) == {q[k] : k \in 1..Len(q)}

NoTask == [pc |-> "none", status |-> None, error |-> None]
NoTasks == [u \in SchedUrls |-> NoTask]

\* a snapshot that leaves the counter of processed records out
checkpoint_data_no_counter(s) ==
  [processed_url_hashes |-> s.processed_url_hashes,
   results |-> s.results,
   total_urls |-> s.total_urls,
   processed_urls |-> 0]

\* the dict pickle.dump writes
checkpoint_data(s) ==
  [processed_url_hashes |-> s.processed_url_hashes,
   results |-> s.results,
   total_urls |-> s.total_urls,
   processed_urls |-> s.processed_urls]

\* pickle.load(f) returns the dict that was dumped; on a file cut short it
\* raises (EOFError, UnpicklingError)
pickle_loads(file) == file # NoFile /\ file # PartialFile

\* a load that clears the state before it reads the file
load_checkpoint_clears(s, file) ==
  IF ~s.checkpoint_file \/ file = NoFile
  THEN [ok |-> FALSE, self |-> s]
  ELSE IF ~pickle_loads(file)
  THEN [ok |-> FALSE, self |-> [s EXCEPT !.total_urls = 0]]
  ELSE [ok |-> TRUE,
        self |-> [s EXCEPT !.processed_url_hashes = file.processed_url_hashes,
                           !.results = file.results,
                           !.total_urls = file.total_urls,
                           !.processed_urls = file.processed_urls]]

\* load_checkpoint: its return value (ok) and the object it leaves (self)
load_checkpoint(s, file) ==
  IF ~s.checkpoint_file \/ file = NoFile
  THEN [ok |-> FALSE, self |-> s]
  ELSE IF ~pickle_loads(file)
  THEN [ok |-> FALSE, self |-> s]
  ELSE [ok |-> TRUE,
        self |-> [s EXCEPT !.processed_url_hashes = file.processed_url_hashes,
                           !.results = file.results,
                           !.total_urls = file.total_urls,
                           !.processed_urls = file.processed_urls]]

\* the environments a probe of the scheduler may meet
Sc(resp) ==
  [server |-> [t \in SchedUrls \cup {"http://x/s1.ts", "http://cdn/v1.m3u8"}
                 |-> IF t = "http://x/s1.ts"
                     THEN Response("ok", 200, "video/mp2t", "ok", <<>>, <<>>)
                     ELSE IF t = "http://cdn/v1.m3u8"
                     THEN Response("timeout", 200, "", "ok", <<>>, <<>>)
                     ELSE resp],
   ffprobe |-> [ok |-> FALSE, msg |-> "ffprobe timeout"]]

MediaBody1 == <<"#EXTM3U", "#EXTINF:10,", "s1.ts">>
MasterBody == <<"#EXTM3U", "#EXT-X-STREAM-INF:BANDWIDTH=1", "http://cdn/v1.m3u8",
                "#EXT-X-STREAM-INF:BANDWIDTH=1", "v2.m3u8">>

\* what the servers of the scheduler's URLs may do: the playlist is served or
\* the request times out; the other URL is answered 404 or the connection fails
SchedScenarios(u) ==
  IF u = "http://x/a.m3u8"
  THEN { Sc(Response("ok", 200, "application/vnd.apple.mpegurl", "ok", MediaBody1, <<>>)),
         Sc(Response("timeout", 200, "", "ok", <<>>, <<>>)) }
  ELSE { Sc(Response("ok", 404, "text/html", "ok", <<>>, <<>>)),
         Sc(Response("reset", 200, "", "ok", <<>>, <<>>)) }

\* process_files has not reached its load_checkpoint call
NoLoad == [found |-> FALSE, ok |-> FALSE, before |-> None, after |-> None]

SchedInit ==
  /\ args \in [concurrency : 1..MaxConcurrency,
               save_interval : 1..MaxSaveInterval,
               checkpoint_file : BOOLEAN,
               output_file : BOOLEAN]
  /\ all_url_infos \in InputLists
  /\ self = StreamChecker(args.concurrency, args.save_interval, args.checkpoint_file)
  /\ unique_url_infos = <<>>
  /\ i = 0
  /\ pc = "start"
  /\ task = NoTasks
  /\ save_pc = "idle"
  /\ save_for = None
  /\ disk = [checkpoint |-> NoFile, temp |-> NoFile, output |-> NoFile]
  /\ run = 1
  /\ hist = [dispatched |-> [u \in SchedUrls |-> 0],
             completed_before |-> {},
             persisted |-> {},
             persisted_before |-> {},
             prev_end |-> None,
             ckpt_before |-> NoFile,
             saving |-> FALSE,
             ckpt_at_start |-> NoFile,
             load |-> NoLoad,
             dumped |-> NoFile,
             saved |-> NoFile,
             order |-> <<>>,
             raised |-> None]

\* the URLs whose outcome is in one of the four buckets
recorded_urls(results) ==
  UNION {{results[st][k].url : k \in 1..Len(results[st])} : st \in Statuses}

\* the records whose probe has completed in this run or, by the checkpoint
\* loaded, in an earlier one
completed_now ==
  recorded_urls(self.results) \cup {u \in SchedUrls : task[u].pc = "returned"}

\* process_files up to the batch loop: dedup, total, resume from the checkpoint
ProcessFilesStart ==
  /\ pc = "start"
  /\ LET uniq == remove_duplicates(all_url_infos, {})
         s1 == [self EXCEPT !.output_file = args.output_file,
                            !.total_urls = Len(uniq)]
         found == /\ Len(uniq) # 0
                  /\ s1.checkpoint_file /\ disk.checkpoint # NoFile
                  /\ ENABLE_CHECKPOINT
         ld == IF found THEN load_checkpoint(s1, disk.checkpoint)
               ELSE [ok |-> FALSE, self |-> s1]
         s2 == ld.self
         todo == IF ld.ok THEN filter_processed(uniq, s2.processed_url_hashes)
                 ELSE uniq
     IN /\ self' = s2
        /\ hist' = [hist EXCEPT !.load = [found |-> found, ok |-> ld.ok,
                                          before |-> s1, after |-> s2]]
        /\ unique_url_infos' = todo
        /\ IF Len(uniq) = 0 \/ (todo = <<>> /\ ~s2.output_file)
           THEN pc' = "done" /\ UNCHANGED <<save_pc, save_for>>
           ELSE IF todo = <<>>
           THEN pc' = "save" /\ save_pc' = "results" /\ save_for' = "skip"
           ELSE pc' = "loop" /\ UNCHANGED <<save_pc, save_for>>
  /\ i' = 0
  /\ UNCHANGED <<probe_vars, args, all_url_infos, task, disk, run>>

\* a gather that returns with the first task that has returned
gather_done_first(batch, t) == \E k \in 1..Len(batch) : t[batch[k]].pc = "returned"

\* gather can return: every task of the batch has returned
gather_done(batch, t) == \A k \in 1..Len(batch) : t[batch[k]].pc = "returned"

\* one iteration of the for loop begins: the batch's check_url tasks are created
StartBatch ==
  /\ pc = "loop" /\ i < Len(unique_url_infos)
  /\ LET batch == batch_at(unique_url_infos, i, self.concurrency)
     IN /\ task' = [u \in SchedUrls |->
                      IF u \in Range(batch)
                      THEN [pc |-> "created", status |-> None, error |-> None]
                      ELSE task[u]]
        /\ hist' = [hist EXCEPT !.dispatched =
                      [u \in SchedUrls |->
                         @[u] + Cardinality({k \in 1..Len(batch) : batch[k] = u})],
                                !.order = <<>>]
  /\ pc' = "gather"
  /\ UNCHANGED <<probe_vars, args, all_url_infos, self, unique_url_infos, i, save_pc,
                 save_for, disk, run>>

\* check_url enters "async with self.semaphore" and runs to its first network
\* request; a URL that fails the urlparse test returns at once
Acquire(u) ==
  /\ pc = "gather" /\ save_pc = "idle"
  /\ task[u].pc = "created"
  /\ self.semaphore > 0
  /\ \E sc \in SchedScenarios(u) :
       LET o == check_url_try(u, sc)
       IN IF o.exit = "return"
          THEN /\ task' = [task EXCEPT ![u] = [pc |-> "returned",
                                               status |-> o.status,
                                               error |-> o.error]]
               /\ self' = self
               /\ hist' = [hist EXCEPT !.order = Append(@, u)]
          ELSE /\ task' = [task EXCEPT ![u].pc = "running"]
               /\ self' = [self EXCEPT !.semaphore = @ - 1]
               /\ hist' = hist
  /\ UNCHANGED <<probe_vars, args, all_url_infos, unique_url_infos, i, pc, save_pc,
                 save_for, disk, run>>

\* the task's requests are over: the code of check_url after the try block
Complete(u) ==
  /\ pc = "gather" /\ save_pc = "idle"
  /\ task[u].pc = "running"
  /\ \E sc \in SchedScenarios(u) :
       LET o == check_url_try(u, sc)
           n == self.processed_urls + 1
           due == n % self.save_interval = 0 /\ n > self.last_save_count
       IN /\ o.exit = "end"
          /\ IF due /\ self.output_file
             THEN /\ task' = [task EXCEPT ![u] = [pc |-> "saving",
                                                  status |-> o.status,
                                                  error |-> o.error]]
                  /\ self' = [self EXCEPT !.processed_urls = n]
                  /\ save_pc' = "results" /\ save_for' = u
             ELSE /\ task' = [task EXCEPT ![u] = [pc |-> "returned",
                                                  status |-> o.status,
                                                  error |-> o.error]]
                  /\ self' = [self EXCEPT !.processed_urls = n,
                                          !.last_save_count =
                                             IF due THEN n ELSE @,
                                          !.semaphore = @ + 1]
                  /\ UNCHANGED <<save_pc, save_for>>
  /\ hist' = [hist EXCEPT !.order = Append(@, u)]
  /\ UNCHANGED <<probe_vars, args, all_url_infos, unique_url_infos, i, pc, disk, run>>

\* a loop over batch_results that does not add the identities
RECURSIVE record_results_no_hash(_, _, _)
record_results_no_hash(s, batch, t) ==
  IF batch = <<>> THEN s
  ELSE LET u == Head(batch)
           s1 == IF t[u].pc # "returned" THEN s
                 ELSE [s EXCEPT !.results[t[u].status] =
                                   Append(@, [url |-> u, error |-> t[u].error])]
       IN record_results_no_hash(s1, Tail(batch), t)

\* a loop over batch_results from its last element to its first
RECURSIVE record_results_reversed(_, _, _)
record_results_reversed(s, batch, t) ==
  IF batch = <<>> THEN s
  ELSE LET u == Head(batch)
           s1 == record_results_reversed(s, Tail(batch), t)
       IN IF t[u].pc # "returned" THEN s1
          ELSE [s1 EXCEPT !.processed_url_hashes = @ \cup {url_hash(u)},
                          !.results[t[u].status] =
                             Append(@, [url |-> u, error |-> t[u].error])]

\* the "Process results" loop over batch_results, in the order of the batch
RECURSIVE record_results(_, _, _)
record_results(s, batch, t) ==
  IF batch = <<>> THEN s
  ELSE LET u == Head(batch)
           s1 == IF t[u].pc # "returned" THEN s
                 ELSE [s EXCEPT !.processed_url_hashes = @ \cup {url_hash(u)},
                                !.results[t[u].status] =
                                   Append(@, [url |-> u, error |-> t[u].error])]
       IN record_results(s1, Tail(batch), t)

\* an end-of-batch save that writes the checkpoint when no output file is set
Gather_checkpoint_without_output ==
  /\ pc = "gather" /\ save_pc = "idle"
  /\ LET batch == batch_at(unique_url_infos, i, self.concurrency)
     IN /\ gather_done(batch, task)
        /\ self' = record_results(self, batch, task)
        /\ task' = [u \in SchedUrls |->
                      IF task[u].pc = "returned" THEN NoTask ELSE task[u]]
  /\ IF self.output_file
     THEN pc' = "save" /\ save_pc' = "results" /\ save_for' = "batch" /\ i' = i
     ELSE IF self.checkpoint_file
     THEN pc' = "save" /\ save_pc' = "open" /\ save_for' = "batch" /\ i' = i
     ELSE pc' = "loop" /\ i' = i + self.concurrency
          /\ UNCHANGED <<save_pc, save_for>>
  /\ UNCHANGED <<probe_vars, args, all_url_infos, unique_url_infos, disk, run, hist>>

\* gather returns the batch's results; they are recorded and the end-of-batch
\* save_intermediate_results begins
Gather ==
  /\ pc = "gather" /\ save_pc = "idle"
  /\ LET batch == batch_at(unique_url_infos, i, self.concurrency)
     IN /\ gather_done(batch, task)
        /\ self' = record_results(self, batch, task)
        /\ task' = [u \in SchedUrls |->
                      IF task[u].pc = "returned" THEN NoTask ELSE task[u]]
  /\ IF self.output_file
     THEN pc' = "save" /\ save_pc' = "results" /\ save_for' = "batch" /\ i' = i
     ELSE pc' = "loop" /\ i' = i + self.concurrency
          /\ UNCHANGED <<save_pc, save_for>>
  /\ UNCHANGED <<probe_vars, args, all_url_infos, unique_url_infos, disk, run, hist>>

\* a return from the save in check_url that leaves the semaphore slot taken
ReturnFromSave_leak ==
  /\ save_pc' = "idle"
  /\ IF save_for \in SchedUrls
     THEN /\ task' = [task EXCEPT ![save_for].pc = "returned"]
          /\ self' = [self EXCEPT !.last_save_count = self.processed_urls]
          /\ UNCHANGED <<i, pc>>
     ELSE /\ i' = i + self.concurrency
          /\ pc' = "loop"
          /\ UNCHANGED <<task, self>>

\* save_intermediate_results returns to its caller
ReturnFromSave ==
  /\ save_pc' = "idle"
  /\ IF save_for \in SchedUrls
     THEN /\ task' = [task EXCEPT ![save_for].pc = "returned"]
          /\ self' = [self EXCEPT !.last_save_count = self.processed_urls,
                                  !.semaphore = @ + 1]
          /\ UNCHANGED <<i, pc>>
     ELSE /\ i' = i + self.concurrency
          /\ pc' = "loop"
          /\ UNCHANGED <<task, self>>

\* save_results writes the result output
SaveResults ==
  /\ save_pc = "results"
  /\ disk' = [disk EXCEPT !.output = [total_urls |-> self.total_urls,
                                      results |-> self.results]]
  /\ IF save_for = "skip"
     THEN pc' = "done" /\ save_pc' = "idle" /\ UNCHANGED <<task, self, i>>
     ELSE IF save_for = "final"
     THEN pc' = "remove" /\ save_pc' = "idle" /\ UNCHANGED <<task, self, i>>
     ELSE IF self.checkpoint_file
     THEN save_pc' = "open" /\ UNCHANGED <<task, self, i, pc>>
     ELSE ReturnFromSave
  /\ UNCHANGED <<probe_vars, args, all_url_infos, unique_url_infos, save_for, run, hist>>

\* the process ends and its memory is lost; the files stay
lose_memory ==
  /\ self' = StreamChecker(args.concurrency, args.save_interval,
                           args.checkpoint_file)
  /\ unique_url_infos' = <<>>
  /\ i' = 0
  /\ task' = NoTasks
  /\ save_pc' = "idle"
  /\ hist' = [hist EXCEPT !.completed_before = @ \cup completed_now,
                          !.dispatched = [u \in SchedUrls |-> 0],
                          !.order = <<>>]

\* a save_intermediate_results that goes on to the checkpoint after save_results
\* has raised
SaveResultsRaises_swallowed ==
  /\ save_pc = "results"
  /\ save_for \notin {"skip", "final"}
  /\ self.checkpoint_file
  /\ save_pc' = "open"
  /\ UNCHANGED <<probe_vars, args, all_url_infos, self, unique_url_infos, i, pc,
                 task, save_for, disk, run, hist>>

\* save_results raises (the output cannot be written): nothing catches it in
\* save_intermediate_results, check_url or process_files
SaveResultsRaises ==
  /\ save_pc = "results"
  /\ pc' = "aborted"
  /\ lose_memory
  /\ UNCHANGED <<probe_vars, args, all_url_infos, save_for, disk, run>>

\* save_checkpoint: open(temp_file, 'wb')
SaveCheckpointOpen ==
  /\ save_pc = "open"
  /\ disk' = [disk EXCEPT !.temp = PartialFile]
  /\ save_pc' = "dump"
  /\ hist' = [hist EXCEPT !.ckpt_before = disk.checkpoint, !.saving = TRUE,
                          !.dumped = NoFile]
  /\ UNCHANGED <<probe_vars, args, all_url_infos, self, unique_url_infos, i, pc, task,
                 save_for, run>>

\* a dump that resets the counter it has written
SaveCheckpointDump_resets_counter ==
  /\ save_pc = "dump"
  /\ disk' = [disk EXCEPT !.temp = checkpoint_data(self)]
  /\ save_pc' = IF disk.checkpoint # NoFile THEN "remove" ELSE "rename"
  /\ self' = [self EXCEPT !.processed_urls = 0]
  /\ hist' = [hist EXCEPT !.dumped =
                 [seen |-> self.processed_url_hashes, buckets |-> self.results,
                  total |-> self.total_urls, completed |-> self.processed_urls]]
  /\ UNCHANGED <<probe_vars, args, all_url_infos, unique_url_infos, i, pc, task,
                 save_for, run>>

\* save_checkpoint: pickle.dump and close
SaveCheckpointDump ==
  /\ save_pc = "dump"
  /\ disk' = [disk EXCEPT !.temp = checkpoint_data(self)]
  /\ save_pc' = IF disk.checkpoint # NoFile THEN "remove" ELSE "rename"
  /\ hist' = [hist EXCEPT !.dumped =
                 [seen |-> self.processed_url_hashes, buckets |-> self.results,
                  total |-> self.total_urls, completed |-> self.processed_urls]]
  /\ UNCHANGED <<probe_vars, args, all_url_infos, self, unique_url_infos, i, pc, task,
                 save_for, run>>

\* save_checkpoint: os.remove(self.checkpoint_file)
SaveCheckpointRemove ==
  /\ save_pc = "remove"
  /\ disk' = [disk EXCEPT !.checkpoint = NoFile]
  /\ save_pc' = "rename"
  /\ hist' = [hist EXCEPT !.saved = NoFile]
  /\ UNCHANGED <<probe_vars, args, all_url_infos, self, unique_url_infos, i, pc, task,
                 save_for, run>>

\* save_checkpoint: os.rename(temp_file, self.checkpoint_file), and the return
SaveCheckpointRename ==
  /\ save_pc = "rename"
  /\ disk' = [disk EXCEPT !.checkpoint = disk.temp, !.temp = NoFile]
  /\ ReturnFromSave
  /\ hist' = [hist EXCEPT !.saving = FALSE,
                          !.saved = hist.dumped,
                          !.dumped = NoFile,
                          !.persisted =
                             IF save_for = "batch"
                             THEN @ \cup {u \in SchedUrls :
                                    url_hash(u) \in self.processed_url_hashes}
                             ELSE @]
  /\ UNCHANGED <<probe_vars, args, all_url_infos, unique_url_infos, save_for, run>>

\* the loop is over: the final save_results, if an output file is given
Finish ==
  /\ pc = "loop" /\ i >= Len(unique_url_infos)
  /\ IF self.output_file
     THEN pc' = "save" /\ save_pc' = "results" /\ save_for' = "final"
     ELSE pc' = "remove" /\ UNCHANGED <<save_pc, save_for>>
  /\ UNCHANGED <<probe_vars, args, all_url_infos, self, unique_url_infos, i, task, disk,
                 run, hist>>

\* a completion that leaves the checkpoint file in place
RemoveCheckpoint_keep ==
  /\ pc = "remove"
  /\ pc' = "done"
  /\ UNCHANGED <<probe_vars, args, all_url_infos, self, unique_url_infos, i,
                 task, save_pc, save_for, disk, run, hist>>

\* the checkpoint file is removed once every batch is done, and process_files returns
RemoveCheckpoint ==
  /\ pc = "remove"
  /\ disk' = IF self.checkpoint_file /\ disk.checkpoint # NoFile
             THEN [disk EXCEPT !.checkpoint = NoFile]
             ELSE disk
  /\ pc' = "done"
  /\ hist' = IF self.checkpoint_file /\ disk.checkpoint # NoFile
             THEN [hist EXCEPT !.saved = NoFile]
             ELSE hist
  /\ UNCHANGED <<probe_vars, args, all_url_infos, self, unique_url_infos, i, task,
                 save_pc, save_for, run>>

\* the process is killed while process_files runs
Crash ==
  /\ pc \in {"loop", "gather", "save", "remove"}
  /\ pc' = "crashed"
  /\ lose_memory
  /\ UNCHANGED <<probe_vars, args, all_url_infos, save_for, disk, run>>

\* the program is started again on the same input (check_directory builds a
\* new StreamChecker and calls process_files)
NewRun ==
  /\ pc \in {"done", "crashed", "aborted"}
  /\ run < MaxRuns
  /\ run' = run + 1
  /\ pc' = "start"
  /\ self' = StreamChecker(args.concurrency, args.save_interval,
                           args.checkpoint_file)
  /\ unique_url_infos' = <<>>
  /\ i' = 0
  /\ task' = NoTasks
  /\ save_pc' = "idle"
  /\ save_for' = None
  /\ hist' = [hist EXCEPT !.dispatched = [u \in SchedUrls |-> 0],
                          !.completed_before = @ \cup completed_now,
                          !.persisted_before = hist.persisted,
                          !.prev_end = pc,
                          !.ckpt_before = NoFile,
                          !.saving = FALSE,
                          !.ckpt_at_start = disk.checkpoint,
                          !.load = NoLoad,
                          !.order = <<>>]
  /\ UNCHANGED <<probe_vars, args, all_url_infos, disk>>

SchedNext ==
  \/ ProcessFilesStart
  \/ StartBatch
  \/ \E u \in SchedUrls : Acquire(u)
  \/ \E u \in SchedUrls : Complete(u)
  \/ Gather
  \/ SaveResults
  \/ SaveResultsRaises
  \/ SaveCheckpointOpen
  \/ SaveCheckpointDump
  \/ SaveCheckpointRemove
  \/ SaveCheckpointRename
  \/ Finish
  \/ RemoveCheckpoint
  \/ Crash
  \/ NewRun

ProbeIdle ==
  /\ p_url = None /\ p_sc = None /\ p_pc = "idle" /\ p_out = None
  /\ config = DefaultConfig

Init == SchedInit /\ ProbeIdle
Next == SchedNext
Spec == Init /\ [][Next]_vars

\* ------------------------------------------------------------ runs that end
\* Runs whose persistence succeeds (save_results never raises) and whose
\* requests all return or time out.  Between two runs the machine may have gone
\* down with the checkpoint file renamed but its data not on disk
\* (save_checkpoint closes the file without fsync): the file is cut short.
TruncateCheckpoint ==
  /\ pc = "crashed"
  /\ pickle_loads(disk.checkpoint)
  /\ disk' = [disk EXCEPT !.checkpoint = PartialFile]
  /\ hist' = [hist EXCEPT !.saved = NoFile]
  /\ UNCHANGED <<probe_vars, args, all_url_infos, self, unique_url_infos, i, pc,
                 task, save_pc, save_for, run>>

\* the steps the event loop takes while process_files runs
RunStep ==
  \/ ProcessFilesStart
  \/ StartBatch
  \/ \E u \in SchedUrls : Acquire(u)
  \/ \E u \in SchedUrls : Complete(u)
  \/ Gather
  \/ SaveResults
  \/ SaveCheckpointOpen
  \/ SaveCheckpointDump
  \/ SaveCheckpointRemove
  \/ SaveCheckpointRename
  \/ Finish
  \/ RemoveCheckpoint

NextRun ==
  \/ RunStep
  \/ Crash
  \/ TruncateCheckpoint
  \/ NewRun

\* the record lists of these runs hold no URL twice
InitRun == Init /\ Cardinality(Range(all_url_infos)) = Len(all_url_infos)

\* asyncio runs every task that is ready, and every request returns or times out
SpecRun == InitRun /\ [][NextRun]_vars /\ WF_vars(RunStep)

\* ------------------------------------------------ resumed runs on a new list
\* Runs with an output file and a checkpoint file, where the program is started
\* again on input files that have changed: process_files extracts another list.
NewRunOnList ==
  /\ pc \in {"done", "crashed", "aborted"}
  /\ run < MaxRuns
  /\ run' = run + 1
  /\ pc' = "start"
  /\ all_url_infos' \in {q \in InputLists : Cardinality(Range(q)) = Len(q)}
  /\ self' = StreamChecker(args.concurrency, args.save_interval,
                           args.checkpoint_file)
  /\ unique_url_infos' = <<>>
  /\ i' = 0
  /\ task' = NoTasks
  /\ save_pc' = "idle"
  /\ save_for' = None
  /\ hist' = [hist EXCEPT !.dispatched = [u \in SchedUrls |-> 0],
                          !.completed_before = @ \cup completed_now,
                          !.persisted_before = hist.persisted,
                          !.prev_end = pc,
                          !.ckpt_before = NoFile,
                          !.saving = FALSE,
                          !.ckpt_at_start = disk.checkpoint,
                          !.load = NoLoad,
                          !.order = <<>>]
  /\ UNCHANGED <<probe_vars, args, disk>>

NextRelist ==
  \/ RunStep
  \/ Crash
  \/ NewRunOnList

InitRelist == InitRun /\ args.checkpoint_file /\ args.output_file

SpecRelist == InitRelist /\ [][NextRelist]_vars

\* ------------------------------------------------- checkpoint writes that fail
\* A run in which an operation of save_checkpoint may raise (OSError: the disk
\* is full, the directory is read-only, the file is locked).

\* a save_checkpoint without its try block: the exception reaches process_files
SaveCheckpointRaises_escapes ==
  /\ save_pc \in {"open", "dump", "remove", "rename"}
  /\ pc' = "aborted"
  /\ lose_memory
  /\ UNCHANGED <<probe_vars, args, all_url_infos, save_for, disk, run>>

\* the operation save_checkpoint has come to raises: open leaves no new file,
\* pickle.dump leaves the temp file cut short, os.remove and os.rename leave
\* the files as they are; "except Exception" logs it and save_checkpoint returns
SaveCheckpointRaises ==
  /\ save_pc \in {"open", "dump", "remove", "rename"}
  /\ disk' = disk
  /\ ReturnFromSave
  /\ hist' = [hist EXCEPT !.saving = FALSE, !.dumped = NoFile, !.raised = save_pc]
  /\ UNCHANGED <<probe_vars, args, all_url_infos, unique_url_infos, save_for, run>>

NextSave ==
  \/ RunStep
  \/ SaveCheckpointRaises

SpecSave == InitRun /\ [][NextSave]_vars /\ WF_vars(RunStep)

\* =================================================================== probe
\* One probe against every environment of ProbeScenarios.
ProbeUrls ==
  {"http://x/a.m3u8", "http://x/b.flv", "http://x/live/c", "http://x/d",
   "http:///e", "//x/g", "h", "rtmp://x/r"}

\* the URLs probed against the playlist environments
PlaylistUrls == {"http://x/a.m3u8", "http://x/live/c", "http://x/d"}

MediaBody4 == <<"#EXTM3U", "#EXTINF:10,", "s1.ts", "#EXTINF:10,", "s2.ts",
                "", "s3.ts", "s4.ts">>
NoHeaderBody == <<"#EXTINF:10,", "s1.ts">>
EmptyMediaBody == <<"#EXTM3U", "#EXTINF:10,", "  ">>
MasterBodyRel == <<"#EXTM3U", "#EXT-X-STREAM-INF:BANDWIDTH=1", "v2.m3u8",
                   "#EXT-X-STREAM-INF:BANDWIDTH=1", "http://cdn/v1.m3u8">>
EmptyMasterBody == <<"#EXTM3U", "#EXT-X-STREAM-INF:BANDWIDTH=1">>

MediaBodies == {MediaBody4, MediaBody1, NoHeaderBody, EmptyMediaBody}
MasterBodies == {MasterBody, MasterBodyRel, EmptyMasterBody}

FlvHeader == <<70, 76, 86, 1, 5, 0, 0, 0, 9, 0, 0, 0, 0>>
ByteBodies ==
  { FlvHeader,
    <<70, 76, 86, 2, 5, 0, 0, 0, 9>>,
    <<70, 76, 86, 1, 5, 0, 0, 0>>,
    <<71, 64, 0, 16>>,
    <<0, 0, 0, 24, 102, 116, 121, 112>>,
    <<60, 104, 116, 109, 108, 62>>,
    <<>> }

NetOutcomes == {"ok", "timeout", "reset"}
HeadOutcomes == {"200", "404", "timeout", "reset"}
ContentTypes == DOMAIN CtInfo

\* the answer to a HEAD request, from its outcome
head_response(o) ==
  IF o = "200" THEN Response("ok", 200, "video/mp2t", "ok", <<>>, <<>>)
  ELSE IF o = "404" THEN NotFound
  ELSE Response(o, 200, "", "ok", <<>>, <<>>)

PlaylistDirs == {"http://x", "http://x/live", "http://cdn"}
SegmentTarget(dir, k) == dir \o "/s" \o ToString(k) \o ".ts"
SegmentTargets == {SegmentTarget(d, k) : d \in PlaylistDirs, k \in 1..4}
V2Targets == {"http://x/v2.m3u8", "http://x/live/v2.m3u8"}

\* an environment: the probed URL answers first, the variants v1 and v2, the
\* k-th segment of every directory seg[k]
Env(first, v1, v2, seg) ==
  [server |->
     [t \in ProbeUrls \cup {"http://cdn/v1.m3u8"} \cup V2Targets \cup SegmentTargets |->
        IF t \in ProbeUrls THEN first
        ELSE IF t = "http://cdn/v1.m3u8" THEN v1
        ELSE IF t \in V2Targets THEN v2
        ELSE head_response(seg[CHOOSE k \in 1..4 :
                                 \E d \in PlaylistDirs : t = SegmentTarget(d, k)])],
   ffprobe |-> [ok |-> FALSE, msg |-> "ffprobe timeout"]]

AllOk == [k \in 1..4 |-> "200"]
MediaOk == Response("ok", 200, "application/vnd.apple.mpegurl", "ok", MediaBody4, <<>>)

VariantResponses ==
  { MediaOk,
    Response("ok", 200, "application/vnd.apple.mpegurl", "ok", EmptyMediaBody, <<>>),
    Response("ok", 200, "application/vnd.apple.mpegurl", "timeout", <<>>, <<>>),
    NotFound,
    Response("timeout", 200, "", "ok", <<>>, <<>>),
    Response("reset", 200, "", "ok", <<>>, <<>>) }

\* environments where no playlist is involved
PlainScenarios ==
  { Env(Response(net, status, ct, read, <<>>, bytes), NotFound, NotFound, AllOk) :
      net \in NetOutcomes, status \in {200, 404}, ct \in ContentTypes,
      read \in NetOutcomes, bytes \in ByteBodies }

\* environments serving a media playlist, and those serving a master playlist
MediaScenarios ==
  { Env(Response("ok", 200, ct, "ok", body, <<>>), NotFound, NotFound, seg) :
      ct \in {"application/vnd.apple.mpegurl", "text/html"},
      body \in MediaBodies, seg \in [1..4 -> HeadOutcomes] }

MasterScenarios ==
  { Env(Response("ok", 200, ct, "ok", body, <<>>), v1, v2, seg) :
      ct \in {"application/vnd.apple.mpegurl", "text/html"},
      body \in MasterBodies, v1 \in VariantResponses, v2 \in {MediaOk, NotFound},
      seg \in [1..4 -> {"200", "404", "timeout"}] }

ProbeInit ==
  /\ \/ /\ p_url \in ProbeUrls /\ p_sc \in PlainScenarios
        /\ config \in [VALIDATE_OTHER_STREAMS : BOOLEAN]
     \/ /\ p_url \in PlaylistUrls /\ p_sc \in MediaScenarios \cup MasterScenarios
        /\ config = DefaultConfig
  /\ p_pc = "start"
  /\ p_out = None

SchedIdle ==
  /\ args = [concurrency |-> 1, save_interval |-> 1, checkpoint_file |-> FALSE,
             output_file |-> FALSE]
  /\ all_url_infos = <<>>
  /\ self = StreamChecker(1, 1, FALSE)
  /\ unique_url_infos = <<>>
  /\ i = 0
  /\ pc = "off"
  /\ task = NoTasks
  /\ save_pc = "idle"
  /\ save_for = None
  /\ disk = [checkpoint |-> NoFile, temp |-> NoFile, output |-> NoFile]
  /\ run = 0
  /\ hist = None

\* check_url's requests run to the verdict
ProbeRun ==
  /\ p_pc = "start"
  /\ p_out' = check_url_try(p_url, p_sc)
  /\ p_pc' = "done"
  /\ UNCHANGED <<sched_vars, p_url, p_sc, config>>

InitProbe == SchedIdle /\ ProbeInit
NextProbe == ProbeRun
SpecProbe == InitProbe /\ [][NextProbe]_vars

\* ============================================================== FLV header
\* _validate_flv on byte sequences: every prefix of ten-byte samples that vary
\* the signature, the version, the flags and the header size.
FlvSamples ==
  { <<b1, 76, 86, b4, b5, b6, 0, b8, b9, 0>> :
      b1 \in {70, 102}, b4 \in {1, 2}, b5 \in {0, 1, 4, 5},
      b6 \in {0, 9}, b8 \in {0, 1}, b9 \in {0, 9} }

FlvInputs == {SubSeq(q, 1, n) : q \in FlvSamples, n \in 0..10}

FlvInit ==
  /\ p_url = None
  /\ p_sc \in FlvInputs
  /\ p_pc = "flv"
  /\ p_out = None
  /\ config = DefaultConfig

\* self._validate_flv(content_preview)
FlvRun ==
  /\ p_pc = "flv"
  /\ p_out' = _validate_flv(p_sc)
  /\ p_pc' = "flv_done"
  /\ UNCHANGED <<sched_vars, p_url, p_sc, config>>

InitFlv == SchedIdle /\ FlvInit
NextFlv == FlvRun
SpecFlv == InitFlv /\ [][NextFlv]_vars

\* =========================================================== content sniff
\* _check_stream_content on byte samples and URLs of every extension it tests:
\* every prefix of samples that hold a signature at their start, further on,
\* or not at all.
SniffUrls ==
  {"http://x/a.m3u8", "http://x/t.ts", "http://x/m.mp4", "http://x/b.flv",
   "http://x/p.php?id=1", "http://x/d"}

SniffSamples ==
  { B_EXTM3U \o <<10>> \o B_STREAM_INF,
    B_STREAM_INF,
    <<10>> \o B_STREAM_INF,
    B_EXTM3U \o <<255>>,
    <<255>> \o B_STREAM_INF,
    <<71, 64, 0, 16>>,
    <<0, 71>>,
    <<0, 0, 0, 24>> \o B_ftyp,
    <<70, 76, 86, 1, 5, 0, 0, 0, 9, 0>>,
    <<70, 76, 86, 2, 5, 0, 0, 0, 9, 0>>,
    B_xml \o <<32>>,
    <<10>> \o B_xml,
    <<60, 104, 116, 109, 108, 62>> }

SniffInputs == UNION {{SubSeq(q, 1, n) : n \in 0..Len(q)} : q \in SniffSamples}

SniffInit ==
  /\ p_url \in SniffUrls
  /\ p_sc \in SniffInputs
  /\ p_pc = "sniff"
  /\ p_out = None
  /\ config = DefaultConfig

\* self._check_stream_content(content_preview, url)
SniffRun ==
  /\ p_pc = "sniff"
  /\ p_out' = _check_stream_content(p_sc, p_url)
  /\ p_pc' = "sniff_done"
  /\ UNCHANGED <<sched_vars, p_url, p_sc, config>>

InitSniff == SchedIdle /\ SniffInit
NextSniff == SniffRun
SpecSniff == InitSniff /\ [][NextSniff]_vars

\* ============================================================ final report
\* _create_final_sorted_file on lists of valid items.  An item has a name, a
\* category, a response time (in hundredths of a second, as rounded at 754) and
\* a URL; the URL of the k-th item of a list is "u<k>".
ReportNames == {"A", "B"}
ReportCategories == {"", "news"}
ReportTimes == {1, 2}

\* the order of Python's string comparison on the names and categories
KeyRank == "" :> 0 @@ "A" :> 1 @@ "B" :> 2 @@ "news" :> 3

ReportAttrs == [name : ReportNames, category : ReportCategories,
                response_time : ReportTimes]

ReportInputs ==
  UNION {{[k \in 1..n |-> [name |-> q[k].name, category |-> q[k].category,
                           response_time |-> q[k].response_time,
                           url |-> "u" \o ToString(k)]] :
            q \in [1..n -> ReportAttrs]} : n \in 0..MaxItems}

\* sorted(d.items()) on a dict: its keys in ascending order
RECURSIVE sorted_keys(_)
sorted_keys(S) ==
  IF S = {} THEN <<>>
  ELSE LET m == CHOOSE k \in S : \A j \in S : KeyRank[k] <= KeyRank[j]
       IN <<m>> \o sorted_keys(S \ {m})

\* list.sort(key=response_time): a stable sort
insert_by_time(q, x) ==
  LET n == Cardinality({k \in 1..Len(q) : q[k].response_time <= x.response_time})
  IN SubSeq(q, 1, n) \o <<x>> \o SubSeq(q, n + 1, Len(q))

RECURSIVE sort_by_time(_)
sort_by_time(q) ==
  IF q = <<>> THEN <<>>
  ELSE insert_by_time(sort_by_time(SubSeq(q, 1, Len(q) - 1)), q[Len(q)])

EntryLine(label, url) == [kind |-> "entry", label |-> label, url |-> url]
GenreLine(category) == [kind |-> "genre", label |-> category, url |-> ""]
BlankLine == [kind |-> "blank", label |-> "", url |-> ""]

\* a writer that numbers the links of a name from 0
numbered_from_zero(name, items) ==
  IF Len(items) = 1 THEN <<EntryLine(name, items[1].url)>>
  ELSE [k \in 1..Len(items) |->
          EntryLine(name \o " " \o ToString(k - 1), items[k].url)]

\* the lines written for one name: numbered when the name has several links
numbered(name, items) ==
  IF Len(items) = 1 THEN <<EntryLine(name, items[1].url)>>
  ELSE [k \in 1..Len(items) |->
          EntryLine(name \o " " \o ToString(k), items[k].url)]

\* categories[category][name], sorted by response time
name_items(valid_items, category, name) ==
  sort_by_time(SelectSeq(valid_items,
                         LAMBDA item : item.category = category /\ item.name = name))

\* the lines of the names of one category, the names in ascending order
RECURSIVE names_lines(_, _, _)
names_lines(valid_items, category, names) ==
  IF names = <<>> THEN <<>>
  ELSE numbered(Head(names), name_items(valid_items, category, Head(names)))
       \o names_lines(valid_items, category, Tail(names))

RECURSIVE categories_lines(_, _)
categories_lines(valid_items, cats) ==
  IF cats = <<>> THEN <<>>
  ELSE LET category == Head(cats)
           names == {valid_items[k].name : k \in
                       {j \in 1..Len(valid_items) : valid_items[j].category = category}}
       IN (IF category # "" THEN <<GenreLine(category)>> ELSE <<>>)
          \o names_lines(valid_items, category, sorted_keys(names))
          \o (IF category # "" THEN <<BlankLine>> ELSE <<>>)
          \o categories_lines(valid_items, Tail(cats))

\* the aggregated section: the items grouped by name[:3], which is the whole
\* name for every name of ReportNames; the first line of a name carries the
\* name alone and the k-th, k > 1, the name followed by k
counted(name, items) ==
  [k \in 1..Len(items) |->
     EntryLine(IF k = 1 THEN name ELSE name \o " " \o ToString(k), items[k].url)]

RECURSIVE groups_lines(_, _)
groups_lines(valid_items, keys) ==
  IF keys = <<>> THEN <<>>
  ELSE counted(Head(keys),
               sort_by_time(SelectSeq(valid_items,
                                      LAMBDA item : item.name = Head(keys))))
       \o groups_lines(valid_items, Tail(keys))

aggregated_section(valid_items) ==
  <<GenreLine("aggregated")>>
  \o groups_lines(valid_items,
                  sorted_keys({valid_items[k].name : k \in 1..Len(valid_items)}))

\* the lines of the final file
_create_final_sorted_file(valid_items) ==
  categories_lines(valid_items,
                   sorted_keys({valid_items[k].category : k \in 1..Len(valid_items)}))
  \o (IF INCLUDE_AGGREGATED_SECTION THEN aggregated_section(valid_items) ELSE <<>>)

ReportInit ==
  /\ p_url = None
  /\ p_sc \in ReportInputs
  /\ p_pc = "report"
  /\ p_out = None
  /\ config = DefaultConfig

\* self._create_final_sorted_file(final_file)
ReportRun ==
  /\ p_pc = "report"
  /\ p_out' = _create_final_sorted_file(p_sc)
  /\ p_pc' = "report_done"
  /\ UNCHANGED <<sched_vars, p_url, p_sc, config>>

InitReport == SchedIdle /\ ReportInit
NextReport == ReportRun
SpecReport == InitReport /\ [][NextReport]_vars

\* ================================================================== claims
\* the probes in flight: check_url tasks holding a semaphore slot
in_flight == Cardinality({u \in SchedUrls : task[u].pc \in {"running", "saving"}})

\* the records whose identity is in the checkpoint the run found at its start
checkpointed_at_start ==
  IF args.checkpoint_file /\ ENABLE_CHECKPOINT /\ pickle_loads(hist.ckpt_at_start)
  THEN {u \in SchedUrls : url_hash(u) \in hist.ckpt_at_start.processed_url_hashes}
  ELSE {}

checkpointing == args.checkpoint_file /\ args.output_file

bucket_total(results) ==
  Len(results.valid) + Len(results.invalid) + Len(results.timeout) + Len(results.error)

\* C1: in every reachable state the number of probes in flight is at most the
\* concurrency bound the checker was configured with.
C1_InFlightBounded == in_flight <= args.concurrency

C1_Witness ==
  /\ args.concurrency > 1
  /\ in_flight = args.concurrency
  /\ Len(unique_url_infos) > args.concurrency

\* C2 as stated: in a run resumed after an interruption, no record whose probe
\* had completed before the interruption is dispatched again.
C2_Original ==
  (checkpointing /\ hist.prev_end = "crashed")
    => \A u \in SchedUrls : hist.dispatched[u] > 0 => u \notin hist.completed_before

\* C2 amended: a resumed run skips exactly the records whose identity is in the
\* checkpoint file it finds on disk and, when it completes, has probed every
\* other record once (the completed probes of the interrupted batch among them).
C2_ResumeSkipsCheckpointed ==
  run > 1 =>
    /\ \A u \in SchedUrls : hist.dispatched[u] > 0 => u \notin checkpointed_at_start
    /\ pc = "done" =>
         \A u \in Range(all_url_infos) \ checkpointed_at_start : hist.dispatched[u] = 1

C2_Witness ==
  /\ hist.prev_end = "crashed" /\ pc = "done"
  /\ checkpointed_at_start # {}
  /\ \E u \in hist.completed_before : hist.dispatched[u] = 1

\* C3 as stated: a second run on the same list, after a first run that completed
\* normally with checkpointing enabled, dispatches no probe.
C3_Original ==
  (checkpointing /\ run = 2 /\ hist.prev_end = "done")
    => \A u \in SchedUrls : hist.dispatched[u] = 0

\* C3 amended: the first run's completion deletes the checkpoint, so the second
\* run, when it completes, has dispatched every record of the list once; a run
\* dispatches nothing only if the checkpoint it finds holds every record.
C3_SecondRunProbesAll ==
  (run > 1 /\ pc = "done") =>
    /\ (run = 2 /\ hist.prev_end = "done")
         => \A u \in Range(all_url_infos) : hist.dispatched[u] = 1
    /\ (\A u \in SchedUrls : hist.dispatched[u] = 0)
         <=> Range(all_url_infos) \subseteq checkpointed_at_start

C3_Witness ==
  /\ checkpointing /\ run = 2 /\ hist.prev_end = "done" /\ pc = "done"
  /\ Len(all_url_infos) > 1
  /\ \A u \in Range(all_url_infos) : hist.dispatched[u] = 1

\* C4: a run resumed after a crash never dispatches a record of a batch whose
\* end-of-batch checkpoint had been written before the crash.
C4_Original ==
  hist.prev_end = "crashed"
    => \A u \in SchedUrls : hist.dispatched[u] > 0 => u \notin hist.persisted_before

\* C5: while save_checkpoint runs, and after a crash at any step of it, the
\* checkpoint path holds the complete previous snapshot or the complete new one.
C5_Original ==
  hist.saving =>
    \/ disk.checkpoint = hist.ckpt_before
    \/ disk.checkpoint = disk.temp /\ disk.temp \notin {NoFile, PartialFile}

\* C6: a record whose identity is in processed_url_hashes is never dispatched,
\* and within one run every URL string is dispatched at most once.
C6_NoRedispatch ==
  /\ \A u \in SchedUrls :
       task[u].pc # "none" => url_hash(u) \notin self.processed_url_hashes
  /\ \A u \in SchedUrls : hist.dispatched[u] <= 1

C6_Witness ==
  /\ run = 2 /\ pc = "gather"
  /\ self.processed_url_hashes # {}
  /\ Len(all_url_infos) > Cardinality(Range(all_url_infos))
  /\ \E u \in SchedUrls : hist.dispatched[u] = 1

\* the batch a record of unique_url_infos belongs to
batch_no(u) ==
  ((CHOOSE k \in 1..Len(unique_url_infos) : unique_url_infos[k] = u) - 1)
    \div self.concurrency
probe_started(u) ==
  task[u].pc \in {"running", "saving", "returned"}
  \/ url_hash(u) \in self.processed_url_hashes
probe_finished(u) ==
  task[u].pc = "returned" \/ url_hash(u) \in self.processed_url_hashes

\* C7: no probe of a later batch has started while a probe of an earlier batch
\* has not finished.
C7_BatchBarrier ==
  \A u, v \in Range(unique_url_infos) :
    (batch_no(v) > batch_no(u) /\ probe_started(v)) => probe_finished(u)

C7_Witness ==
  /\ args.concurrency > 1
  /\ \E u, v \in Range(unique_url_infos) :
       /\ batch_no(v) = batch_no(u) + 1
       /\ task[v].pc = "running"

\* C8: every check_url task that is over has returned one outcome whose
\* classification is one of the four, and none has let an exception escape.
C8_Original ==
  /\ \A u \in SchedUrls : task[u].pc = "returned" => task[u].status \in Statuses
  /\ ~(pc = "aborted" /\ save_for \in SchedUrls)

\* C9: a probe one of whose network operations exceeded the timeout is
\* classified timeout.
C9_Original ==
  (p_pc = "done" /\ \E k \in 1..Len(p_out.reqs) : p_out.reqs[k].result = "timeout")
    => p_out.status = "timeout"

\* C10: once an outcome is recorded the completed counter equals the number of
\* outcomes in the four buckets, in memory and in every checkpoint written.
C10_Original ==
  /\ bucket_total(self.results) > 0
       => self.processed_urls = bucket_total(self.results)
  /\ disk.checkpoint # NoFile
       => disk.checkpoint.processed_urls = bucket_total(disk.checkpoint.results)

\* C11: the state a resumed run holds right after load_checkpoint is the state
\* the checker held when it wrote the checkpoint file found: the same seen
\* identities, the same buckets (entries and order), total and completed count.
C11_RoundTrip ==
  (hist.load.ok /\ disk.checkpoint = hist.ckpt_at_start)
    => /\ hist.load.after.processed_url_hashes = hist.saved.seen
       /\ hist.load.after.results = hist.saved.buckets
       /\ hist.load.after.total_urls = hist.saved.total
       /\ hist.load.after.processed_urls = hist.saved.completed

C11_Witness ==
  /\ run = 2 /\ hist.load.ok
  /\ disk.checkpoint = hist.ckpt_at_start
  /\ bucket_total(hist.load.after.results) > 1
  /\ hist.load.after.processed_urls > 0
  /\ hist.load.before.results = EmptyResults

\* the state load_checkpoint found: process_files' assignments before the call
\* on a fresh StreamChecker
fresh_state ==
  [StreamChecker(args.concurrency, args.save_interval, args.checkpoint_file)
     EXCEPT !.output_file = args.output_file,
            !.total_urls = Len(remove_duplicates(all_url_infos, {}))]

\* C12: when the checkpoint file is missing or cut short, load_checkpoint
\* reports failure and leaves the state as it was, and the run probes every
\* record of the list instead of aborting.
C12_CorruptStartsFresh ==
  (pc \notin {"start", "crashed"} /\ ~pickle_loads(hist.ckpt_at_start))
    => /\ ~hist.load.ok
       /\ hist.load.after = hist.load.before
       /\ hist.load.after = fresh_state
       /\ unique_url_infos = remove_duplicates(all_url_infos, {})
       /\ pc # "aborted"
       /\ pc = "done" => \A u \in Range(all_url_infos) : hist.dispatched[u] = 1

C12_Witness ==
  /\ run = 2 /\ pc = "done"
  /\ args.checkpoint_file /\ hist.ckpt_at_start = PartialFile
  /\ hist.load.found /\ ~hist.load.ok
  /\ Len(unique_url_infos) > 1

\* every record of the list to check has one outcome in the buckets
one_outcome_each ==
  \A u \in Range(unique_url_infos) :
    Cardinality({e \in Statuses \X (1..MaxRecords + 1) :
                   /\ e[2] <= Len(self.results[e[1]])
                   /\ self.results[e[1]][e[2]].url = u}) = 1

\* C14: a run that is not killed reaches the end of process_files, with one
\* outcome recorded for each record of the list it had to check.
C14_RunCompletes ==
  (pc = "start") ~> (pc = "crashed" \/ (pc = "done" /\ one_outcome_each))

C14_Witness ==
  /\ run = 2 /\ pc = "done" /\ hist.load.ok
  /\ Len(unique_url_infos) > 0
  /\ Len(unique_url_infos) < Cardinality(Range(all_url_infos))
  /\ one_outcome_each

\* the place of a URL in a list that holds it
pos(q, u) == CHOOSE k \in 1..Len(q) : q[k] = u

\* the URLs of a bucket, in the bucket's order
bucket_urls(st) == [k \in 1..Len(self.results[st]) |-> self.results[st][k].url]

deep_probe ==
  /\ p_pc = "done"
  /\ LET resp == fetch(p_sc, p_url)
     IN /\ resp.net = "ok" /\ resp.status < 400 /\ resp.read = "ok"
        /\ (url_endswith(p_url, ".m3u8") \/ CtInfo[resp.ctype].mpegurl)
        /\ DEEP_VALIDATION
        /\ content_startswith_EXTM3U(resp.text)

probe_body == fetch(p_sc, p_url).text

\* the variants a master playlist lists, and those after the first
listed_variants == variant_urls(p_url, probe_body)
later_variants == {listed_variants[j] : j \in 2..Len(listed_variants)}

master_probe ==
  deep_probe /\ content_has_STREAM_INF(probe_body) /\ Len(listed_variants) >= 2

\* the environment with the answer of some targets replaced
with_response(sc, targets, r) ==
  [sc EXCEPT !.server = [t \in DOMAIN sc.server |->
                           IF t \in targets THEN r ELSE sc.server[t]]]

\* C15: of the variants a master playlist lists only the first is requested,
\* the outcome does not depend on what the later variants would answer, and a
\* first variant that is broken makes the probe invalid.
C15_FirstVariantOnly ==
  master_probe =>
    /\ \A k \in 1..Len(p_out.reqs) : p_out.reqs[k].target \notin later_variants
    /\ \E k \in 1..Len(p_out.reqs) :
         /\ p_out.reqs[k].method = "GET"
         /\ p_out.reqs[k].target = listed_variants[1]
    /\ \A r \in {MediaOk, NotFound} :
         LET o == check_url_try(p_url, with_response(p_sc, later_variants, r))
         IN o.status = p_out.status /\ o.error = p_out.error
    /\ LET v1 == fetch(p_sc, listed_variants[1])
       IN (v1.net # "ok" \/ v1.status >= 400) => p_out.status = "invalid"

C15_Witness ==
  /\ master_probe
  /\ fetch(p_sc, listed_variants[1]) = NotFound
  /\ \A v \in later_variants : fetch(p_sc, v) = MediaOk
  /\ p_out.status = "invalid"
  /\ p_out.error = "Variant stream HTTP status: 404"

\* the segments a media playlist lists, and how many of them are checked
listed_segments == media_segments(p_url, probe_body)
segments_checked == Min(Len(listed_segments), M3U8_SEGMENTS_TO_CHECK)

media_probe ==
  deep_probe /\ ~content_has_STREAM_INF(probe_body) /\ listed_segments # <<>>

\* the checked segments answered with a status >= 400, and those whose request
\* did not come back with a status below 400
segments_4xx ==
  {k \in 1..segments_checked :
     /\ fetch(p_sc, listed_segments[k]).net = "ok"
     /\ fetch(p_sc, listed_segments[k]).status >= 400}
segments_failing ==
  {k \in 1..segments_checked :
     \/ fetch(p_sc, listed_segments[k]).net # "ok"
     \/ fetch(p_sc, listed_segments[k]).status >= 400}

first_of(S) == CHOOSE k \in S : \A l \in S : k <= l

\* the requests of a probe that checks the segments 1..n in listed order
head_checks(n) ==
  <<Request("GET", p_url, fetch(p_sc, p_url))>>
  \o [k \in 1..n |-> Request("HEAD", listed_segments[k],
                               fetch(p_sc, listed_segments[k]))]

C17_DetailNullIffValid ==
  p_pc = "done" => (p_out.error = None <=> p_out.status = "valid")

C17_Witness ==
  /\ p_pc = "done"
  /\ p_out.status = "invalid"
  /\ p_out.error = "No media segments found in playlist"

\* C18: _validate_flv answers true exactly on the byte sequences of at least 9
\* bytes that begin with "FLV", version 1, flags 1, 4 or 5, and the big-endian
\* 32-bit header size 9 (the bytes 0, 0, 0, 9); it always answers.
C18_FlvHeader ==
  p_pc = "flv_done" =>
    /\ p_out \in BOOLEAN
    /\ p_out <=> /\ Len(p_sc) >= 9
                 /\ SubSeq(p_sc, 1, 3) = <<70, 76, 86>>
                 /\ p_sc[4] = 1
                 /\ p_sc[5] \in {1, 4, 5}
                 /\ SubSeq(p_sc, 6, 9) = <<0, 0, 0, 9>>
    /\ Len(p_sc) < 9 => ~p_out

C18_Witness ==
  /\ p_pc = "flv_done"
  /\ p_sc = <<70, 76, 86, 1, 4, 0, 0, 0, 9>>
  /\ p_out = TRUE

\* the record lists that hold the same records in another order
Perms(q) ==
  {r \in [1..Len(q) -> Range(q)] :
     \A x \in Range(q) : Cardinality({k \in 1..Len(q) : r[k] = x})
                           = Cardinality({k \in 1..Len(q) : q[k] = x})}

\* C19: a resumed run skips exactly the URL strings the saving run recorded
\* (their identity is the same in both runs), and any reordering of the record
\* list gives the same set of records to probe.
C19_FilterBySet ==
  (hist.load.ok /\ pc \notin {"start", "crashed", "aborted"})
    => /\ Range(unique_url_infos)
            = Range(all_url_infos) \ recorded_urls(hist.load.after.results)
       /\ \A q \in Perms(all_url_infos) :
            Range(filter_processed(remove_duplicates(q, {}),
                                   hist.load.after.processed_url_hashes))
              = Range(unique_url_infos)

C19_Witness ==
  /\ run = 2 /\ pc = "gather" /\ hist.load.ok
  /\ unique_url_infos # <<>>
  /\ recorded_urls(hist.load.after.results) # {}
  /\ Cardinality(Perms(all_url_infos)) > 2

\* C20: every snapshot save_checkpoint writes holds the identity and the
\* outcome of every probe completed so far, those of the current batch included.
C20_Original ==
  (save_pc \in {"remove", "rename"} /\ pickle_loads(disk.temp))
    => \A u \in Range(hist.order) :
         /\ url_hash(u) \in disk.temp.processed_url_hashes
         /\ u \in recorded_urls(disk.temp.results)

\* C21: whenever process_files has returned on a list that holds a record, after
\* its batches or at once because the checkpoint held every record, the
\* checkpoint file does not exist and the result output holds the final results.
C21_Original ==
  (pc = "done" /\ Len(all_url_infos) > 0)
    => /\ disk.checkpoint = NoFile
       /\ args.output_file
            => disk.output = [total_urls |-> self.total_urls,
                              results |-> self.results]

\* the fields of the run state: total, completed counter, buckets, identities
run_state(s) ==
  [total |-> s.total_urls, completed |-> s.processed_urls,
   buckets |-> s.results, seen |-> s.processed_url_hashes]

\* C22: while the check_url tasks of a batch run (gather has not returned) no
\* field of the run state changes and no file is written.
C22_Original ==
  [][(pc = "gather" /\ pc' = "gather")
       => (run_state(self') = run_state(self) /\ disk' = disk)]_vars

\* the probes that have come to an outcome: those recorded in the buckets and
\* the tasks of the current batch past their requests
completed_count ==
  bucket_total(self.results)
    + Cardinality({u \in SchedUrls : task[u].pc \in {"saving", "returned"}})

\* C23: with checkpointing configured, the step by which the number of probes
\* that came to an outcome reaches a multiple of save_interval starts a save of
\* the results and the checkpoint, and so does the end of every batch.
C23_Original ==
  [][checkpointing =>
       /\ (/\ pc = "gather" /\ pc' = "gather"
           /\ completed_count' = completed_count + 1
           /\ completed_count' % args.save_interval = 0)
            => save_pc' = "results"
       /\ (pc = "gather" /\ pc' \notin {"gather", "crashed"})
            => save_pc' = "results"]_vars

\* C24: a probe one of whose network operations failed without timing out is
\* classified error, with the text of the exception as its detail.
C24_Original ==
  (p_pc = "done" /\ \E k \in 1..Len(p_out.reqs) : p_out.reqs[k].result = "reset")
    => (p_out.status = "error" /\ p_out.error = str_exc("reset"))

\* C25: when an operation of save_checkpoint raises, the exception stays in
\* save_checkpoint: the step changes no field of the run state and returns to
\* the caller of the save, process_files is never aborted, and the run goes on
\* to its end.
C25_SaveFailureContained ==
  /\ [][SaveCheckpointRaises
          => /\ run_state(self') = run_state(self)
             /\ save_pc' = "idle"
             /\ pc' \in {"gather", "loop"}]_vars
  /\ [](pc # "aborted")
  /\ (hist.raised # None) ~> (pc = "done" /\ one_outcome_each)

C25_Witness ==
  /\ pc = "done" /\ hist.raised = "rename"
  /\ pickle_loads(disk.temp) /\ disk.checkpoint = NoFile
  /\ Len(unique_url_infos) > 1
  /\ one_outcome_each

\* C26: for a media playlist of n segments, HEAD requests go to the segments
\* 1..min(K, n) in listed order and stop at the first that fails; none goes to a
\* segment after K.  The probe is valid exactly when each of the first
\* min(K, n) segments answers with a status below 400, whatever the later
\* segments answer; a playlist without a segment is invalid, with no request.
C26_SegmentBound ==
  (deep_probe /\ ~content_has_STREAM_INF(probe_body)) =>
    /\ listed_segments = <<>>
         => /\ p_out.status = "invalid"
            /\ p_out.reqs = head_checks(0)
    /\ listed_segments # <<>>
         => /\ p_out.reqs = head_checks(IF segments_failing = {}
                                        THEN segments_checked
                                        ELSE first_of(segments_failing))
            /\ p_out.status = "valid" <=> segments_failing = {}
    /\ \A k \in 2..Len(p_out.reqs) :
         /\ p_out.reqs[k].method = "HEAD"
         /\ \A j \in M3U8_SEGMENTS_TO_CHECK + 1..Len(listed_segments) :
              p_out.reqs[k].target # listed_segments[j]

C26_Witness ==
  /\ media_probe /\ Len(listed_segments) = 4
  /\ segments_failing = {}
  /\ fetch(p_sc, listed_segments[4]).status = 404
  /\ p_out.status = "valid"
  /\ Len(p_out.reqs) = 1 + M3U8_SEGMENTS_TO_CHECK

\* the outcome check_url returns for a URL it does not accept
format_invalid ==
  p_out.status = "invalid" /\ p_out.error = "Invalid URL format"

\* C27 as stated: the probe is invalid with the detail "Invalid URL format"
\* exactly when the URL has neither a scheme nor an authority.
C27_Original ==
  p_pc = "done" =>
    (format_invalid <=> (UrlInfo[p_url].scheme = "" /\ UrlInfo[p_url].netloc = ""))

\* C27 amended: the probe is invalid with the detail "Invalid URL format", and
\* has made no request, exactly when the URL lacks a scheme or lacks an
\* authority; a URL that has both goes on to the request.
C27_InvalidFormat ==
  p_pc = "done" =>
    /\ format_invalid <=> (UrlInfo[p_url].scheme = "" \/ UrlInfo[p_url].netloc = "")
    /\ format_invalid => (p_out.reqs = <<>> /\ p_out.exit = "return")
    /\ (UrlInfo[p_url].scheme \in {"http", "https"} /\ UrlInfo[p_url].netloc # "")
         => /\ Len(p_out.reqs) >= 1
            /\ p_out.reqs[1].method = "GET" /\ p_out.reqs[1].target = p_url

C27_Witness ==
  /\ p_pc = "done" /\ p_url = "http:///e"
  /\ fetch(p_sc, p_url).status = 200
  /\ format_invalid /\ p_out.reqs = <<>>

\* the probe is over and its GET was answered with a status below 400
first_response == fetch(p_sc, p_url)
answered ==
  /\ p_pc = "done"
  /\ UrlInfo[p_url].scheme \in {"http", "https"} /\ UrlInfo[p_url].netloc # ""
  /\ first_response.net = "ok" /\ first_response.status < 400

\* the conditions of the branches of check_url on such a response
hls_applies ==
  /\ url_endswith(p_url, ".m3u8") \/ CtInfo[first_response.ctype].mpegurl
  /\ DEEP_VALIDATION
flv_applies ==
  /\ url_endswith(p_url, ".flv") \/ CtInfo[first_response.ctype].flv
  /\ config.VALIDATE_OTHER_STREAMS
allow_listed == CtInfo[first_response.ctype].stream

\* C28: on a response with status < 400 the first branch that applies decides
\* alone, in the order HLS, FLV, allow-list, generic: an HLS response gets the
\* verdict of _validate_m3u8 and a FLV response that of _validate_flv even when
\* the content type is on the allow-list, both after the body was read; the
\* allow-list makes the probe valid, body unread, when neither applies.
C28_BranchOrder ==
  answered =>
    /\ (hls_applies /\ first_response.read = "ok")
         => LET v == _validate_m3u8(p_url, first_response.text, p_sc)
            IN /\ p_out.status = IF v.ok THEN "valid" ELSE "invalid"
               /\ p_out.error = v.msg
    /\ (~hls_applies /\ flv_applies /\ first_response.read = "ok")
         => p_out.status = IF _validate_flv(content_read(first_response.bytes, 12))
                           THEN "valid" ELSE "invalid"
    /\ ((hls_applies \/ flv_applies) /\ first_response.read # "ok")
         => p_out.status \in {"timeout", "error"}
    /\ (~hls_applies /\ ~flv_applies /\ allow_listed)
         => /\ p_out.status = "valid" /\ p_out.error = None
            /\ p_out.reqs = <<Request("GET", p_url, first_response)>>

C28_Witness ==
  /\ answered /\ hls_applies /\ allow_listed
  /\ ~url_endswith(p_url, ".m3u8")
  /\ first_response.read = "ok"
  /\ p_out.status = "invalid"
  /\ p_out.error = "Not a valid M3U8 file (missing #EXTM3U header)"

\* the response reaches the last branch of check_url
generic_branch == answered /\ ~hls_applies /\ ~flv_applies /\ ~allow_listed

\* C29: in the generic branch, with VALIDATE_OTHER_STREAMS set the probe is
\* valid when the 1024-byte sample passes _check_stream_content or the URL
\* matches a stream pattern, and invalid otherwise; with it unset the probe is
\* valid exactly when the URL matches a stream pattern.
C29_GenericBranch ==
  generic_branch =>
    /\ (config.VALIDATE_OTHER_STREAMS /\ first_response.read = "ok")
         => /\ p_out.status \in {"valid", "invalid"}
            /\ p_out.status = "valid"
                 <=> \/ _check_stream_content(
                          content_read(first_response.bytes, 1024), p_url)
                     \/ UrlInfo[p_url].pattern
    /\ ~config.VALIDATE_OTHER_STREAMS
         => /\ p_out.status \in {"valid", "invalid"}
            /\ p_out.status = "valid" <=> UrlInfo[p_url].pattern

C29_Witness ==
  /\ generic_branch /\ ~config.VALIDATE_OTHER_STREAMS
  /\ UrlInfo[p_url].pattern
  /\ ~_check_stream_content(content_read(first_response.bytes, 1024), p_url)
  /\ p_out.status = "valid"

\* C30 as stated: _check_stream_content answers, for a URL ending in .m3u8,
\* whether the sample starts with #EXTM3U; for .ts, whether its first byte is
\* 0x47; for .mp4, whether it contains ftyp; for .flv, _validate_flv; for any
\* other URL, whether one of these holds or the sample starts with <?xml.
C30_Original ==
  p_pc = "sniff_done" =>
    /\ p_out \in BOOLEAN
    /\ p_out <=>
         IF UrlInfo[p_url].ext = ".m3u8" THEN bytes_startswith(p_sc, B_EXTM3U)
         ELSE IF UrlInfo[p_url].ext = ".ts" THEN Len(p_sc) > 0 /\ p_sc[1] = 71
         ELSE IF UrlInfo[p_url].ext = ".mp4" THEN bytes_contains(p_sc, B_ftyp)
         ELSE IF UrlInfo[p_url].ext = ".flv" THEN _validate_flv(p_sc)
         ELSE \/ bytes_startswith(p_sc, B_EXTM3U)
              \/ Len(p_sc) > 0 /\ p_sc[1] = 71
              \/ bytes_contains(p_sc, B_ftyp)
              \/ _validate_flv(p_sc)
              \/ bytes_startswith(p_sc, B_xml)

\* C30 amended: for a URL ending in .m3u8 the answer is true exactly when the
\* sample decodes as UTF-8 and starts with #EXTM3U or contains
\* #EXT-X-STREAM-INF; for .ts, .mp4 and .flv as stated; for any other URL, when
\* the sample starts with #EXTM3U, or its first byte is 0x47, or it contains
\* ftyp, or it is a FLV header, or it contains <?xml at any place.  It answers
\* on every input.
C30_SniffByExtension ==
  p_pc = "sniff_done" =>
    /\ p_out \in BOOLEAN
    /\ p_out <=>
         IF UrlInfo[p_url].ext = ".m3u8"
         THEN /\ \A k \in 1..Len(p_sc) : p_sc[k] < 128
              /\ \/ bytes_startswith(p_sc, B_EXTM3U)
                 \/ bytes_contains(p_sc, B_STREAM_INF)
         ELSE IF UrlInfo[p_url].ext = ".ts" THEN Len(p_sc) > 0 /\ p_sc[1] = 71
         ELSE IF UrlInfo[p_url].ext = ".mp4" THEN bytes_contains(p_sc, B_ftyp)
         ELSE IF UrlInfo[p_url].ext = ".flv" THEN _validate_flv(p_sc)
         ELSE \/ bytes_startswith(p_sc, B_EXTM3U)
              \/ Len(p_sc) > 0 /\ p_sc[1] = 71
              \/ bytes_contains(p_sc, B_ftyp)
              \/ _validate_flv(p_sc)
              \/ bytes_contains(p_sc, B_xml)

C30_Witness ==
  /\ p_pc = "sniff_done"
  /\ p_url = "http://x/a.m3u8"
  /\ p_sc = <<10>> \o B_STREAM_INF
  /\ p_out = TRUE

\* the number of entries the buckets hold for a URL
entries_of(results, u) ==
  Cardinality({e \in Statuses \X (1..MaxRecords * MaxRuns) :
                 /\ e[2] <= Len(results[e[1]])
                 /\ results[e[1]][e[2]].url = u})

\* the identities of the URLs in the buckets
bucket_hashes(results) == {url_hash(u) : u \in recorded_urls(results)}

\* C32: over runs, crashes and resumes the buckets hold at most one entry for
\* each URL, in memory and in the checkpoint file, and the identities kept (in
\* memory and in every complete checkpoint file) are exactly those of the URLs
\* in the buckets next to them.
C32_OneOutcomePerUrl ==
  /\ \A u \in SchedUrls : entries_of(self.results, u) <= 1
  /\ self.processed_url_hashes = bucket_hashes(self.results)
  /\ \A f \in {disk.checkpoint, disk.temp} :
       pickle_loads(f)
         => /\ \A u \in SchedUrls : entries_of(f.results, u) <= 1
            /\ f.processed_url_hashes = bucket_hashes(f.results)

C32_Witness ==
  /\ run = 2 /\ pc = "done" /\ hist.load.ok
  /\ bucket_total(hist.load.after.results) > 0
  /\ bucket_total(self.results) > bucket_total(hist.load.after.results)
  /\ \A u \in Range(all_url_infos) : entries_of(self.results, u) = 1

\* C33: the completed counter never exceeds the total, in fresh runs and in
\* runs resumed from a checkpoint the program wrote.
C33_Original == self.processed_urls <= self.total_urls

\* C35: with no output file set no checkpoint file is written, whatever the
\* checkpoint_file argument: no step of save_checkpoint is taken, and a run
\* started after an interruption finds nothing to load and checks the whole list.
C35_NoOutputNoCheckpoint ==
  ~args.output_file =>
    /\ disk.checkpoint = NoFile /\ disk.temp = NoFile
    /\ save_pc = "idle"
    /\ ~hist.load.found
    /\ pc \in {"loop", "gather", "remove", "done"}
         => unique_url_infos = remove_duplicates(all_url_infos, {})

C35_Witness ==
  /\ args.checkpoint_file /\ ~args.output_file
  /\ run = 2 /\ hist.prev_end = "crashed" /\ hist.completed_before # {}
  /\ pc = "gather"
  /\ Len(unique_url_infos) > 1
  /\ unique_url_infos = remove_duplicates(all_url_infos, {})

\* what save_results writes of the state s
output_of(s) == [total_urls |-> s.total_urls, results |-> s.results]

\* C36: save_checkpoint runs only after save_results has written the output of
\* the same state, the snapshot it dumps holds the buckets of that output, and
\* when save_results raises no file of the checkpoint is touched.
C36_OutputBeforeCheckpoint ==
  /\ [](save_pc \in {"open", "dump", "remove", "rename"}
          => disk.output = output_of(self))
  /\ [](save_pc \in {"remove", "rename"}
          => disk.temp.results = disk.output.results)
  /\ [][save_pc' = "open" => save_pc = "results"]_vars
  /\ [][(save_pc = "results" /\ pc' = "aborted")
          => (disk'.checkpoint = disk.checkpoint /\ disk'.temp = disk.temp)]_vars

C36_Witness ==
  /\ save_pc = "remove" /\ save_for = "batch"
  /\ bucket_total(self.results) > 1
  /\ disk.output = output_of(self)
  /\ disk.temp = checkpoint_data(self)
  /\ pickle_loads(disk.checkpoint) /\ disk.checkpoint # disk.temp

\* C37: no step of save_results or of save_checkpoint changes the buckets, the
\* identities, the total or the completed counter, also when the save runs in
\* check_url while other probes of the batch are in flight.
C37_SavesReadOnly ==
  [][(save_pc # "idle" /\ pc' \notin {"crashed", "aborted"})
       => run_state(self') = run_state(self)]_vars

C37_Witness ==
  /\ save_pc = "rename" /\ save_for \in SchedUrls
  /\ \E v \in SchedUrls : task[v].pc = "running"
  /\ self.processed_urls > 0
  /\ disk.temp = checkpoint_data(self)

\* C34: when process_files has returned on a list that holds a record, the
\* total of the summary written equals the number of outcomes in the four
\* buckets and the number of distinct URLs of the list given to this run.
C34_Original ==
  (pc = "done" /\ args.output_file /\ Len(all_url_infos) > 0)
    => /\ disk.output.total_urls = bucket_total(disk.output.results)
       /\ disk.output.total_urls = Cardinality(Range(all_url_infos))

\* the items of the list with a category and a name, and the places in the
\* report of the lines that carry their URLs
group_members(category, name) ==
  {k \in 1..Len(p_sc) : p_sc[k].category = category /\ p_sc[k].name = name}
group_places(category, name) ==
  {l \in 1..Len(p_out) :
     /\ p_out[l].kind = "entry"
     /\ \E k \in group_members(category, name) : p_sc[k].url = p_out[l].url}
time_of(url) == p_sc[CHOOSE k \in 1..Len(p_sc) : p_sc[k].url = url].response_time

\* C31: in the final report the lines of the items of one (category, name)
\* follow one another, one line for each item, in ascending order of response
\* time; when the group has several items the line of the k-th carries the
\* name followed by k, and a group of one carries the name alone.
C31_FinalReportOrder ==
  p_pc = "report_done" =>
    \A category \in ReportCategories, name \in ReportNames :
      LET members == group_members(category, name)
          places == group_places(category, name)
          n == Cardinality(members)
      IN /\ Cardinality(places) = n
         /\ \A a, b \in places :
              /\ \A l \in a..b : l \in places
              /\ a < b => time_of(p_out[a].url) <= time_of(p_out[b].url)
         /\ \A a \in places :
              p_out[a].label =
                IF n = 1 THEN name
                ELSE name \o " " \o ToString(Cardinality({b \in places : b <= a}))

C31_Witness ==
  /\ p_pc = "report_done"
  /\ Len(p_sc) = 3
  /\ p_sc[1].name = "A" /\ p_sc[2].name = "A" /\ p_sc[3].name = "B"
  /\ \A k \in 1..3 : p_sc[k].category = "news"
  /\ p_sc[1].response_time = 2 /\ p_sc[2].response_time = 1
  /\ p_out = <<GenreLine("news"), EntryLine("A 1", "u2"), EntryLine("A 2", "u1"),
               EntryLine("B", "u3"), BlankLine>>

====
